---- MODULE Spec2Model ----
(***************************************************************************)
(* A model of the transcoding orchestrator of fftools/ffmpeg.c: the signal *)
(* monitor, the output selector (choose_output), the transcode step, the   *)
(* input driver and the main loop of transcode() with its termination      *)
(* phase, up to the exit code computed by main().                          *)
(*                                                                         *)
(* 64-bit timestamps are modelled on a narrow signed range                 *)
(* INT64_MIN .. INT64_MAX whose width follows the bound MaxDts; the        *)
(* sentinels keep their place in it (AV_NOPTS_VALUE = INT64_MIN).          *)
(***************************************************************************)
EXTENDS Integers, Sequences, FiniteSets, TLC

\* ------------------------------------------------------------------ bounds

\* Largest packet timestamp a demuxer delivers in a run.
MaxDts == 1
\* Largest number of streams of one file.
MaxStreams == 2
\* Largest number of frames a decoder holds back, and cap of its counters.
MaxBuffered == 1
\* Largest reading of the clock, in microseconds.
MaxTime == 2

\* ------------------------------------------------------- program constants

INT64_MAX == MaxDts + 2
INT64_MIN == 0 - INT64_MAX - 1
AV_NOPTS_VALUE == INT64_MIN

ENCODER_FINISHED == 1
MUXER_FINISHED == 2

EAGAIN == 11
AVERROR(e) == 0 - e
AVERROR_EOF == -541478725
AVERROR_EXIT == -1414092869
\* an error of a collaborator other than the three above: AVERROR(EIO)
EIO == 5

\* the signals term_init() installs sigterm_handler for (SIGINT, SIGTERM)
SIGINT == 2
SIGTERM == 15
Signals == {SIGINT, SIGTERM}

NULL == <<-1, -1>>

VARIABLES
    received_sigterm,     \* static volatile int
    received_nb_signals,  \* static volatile int
    transcode_init_done,  \* atomic_int
    pc,                   \* position of the main thread
    exit_code,            \* <<>> while the process runs, <<status>> once it exited
    cleanup_ret,          \* <<>>, or <<ret>> once exit_program(ret) was called
    cleanup_log,          \* the message ffmpeg_cleanup logged at lines 394-399
    stdin_interaction,    \* option: poll the keyboard
    output_files,         \* sequence of [nb_streams]
    output_streams,       \* [OutputStream id -> fields]
    input_files,          \* sequence of [nb_streams, eagain, eof_reached, ...]
    input_streams,        \* [InputStream id -> fields]
    ost,                  \* transcode(): OutputStream *ost
    ret,                  \* transcode(): int ret; main(): int ret
    pi_ret,               \* transcode_step(): ret of process_input
    gp_ret,               \* process_input(): ret of ifile_get_packet
    err_rate_exceeded,    \* main(): int err_rate_exceeded
    max_error_rate,       \* option, as <<numerator, denominator>>
    exit_on_error,        \* option -xerror
    ist,                  \* transcode(): InputStream *ist of the flush loop
    trailer_i,            \* transcode(): i of the trailer loop
    calls,                \* what transcode() called after its main loop, in order
    loop_exit,            \* <<>>, or <<[cause, ret]>> once the main loop was left
    print_stats,          \* option -stats / -nostats
    nb_frames_dup,        \* global: frames duplicated
    nb_frames_drop,       \* global: frames dropped
    copy_ts_first_pts,    \* global of print_report
    progress_avio,        \* the -progress output is open
    reports,              \* what print_report put in buf_script, call by call
    last_time,            \* print_report(): static int64_t last_time
    first_report,         \* print_report(): static int first_report
    nb_output_dumped,     \* global: output files dumped so far
    stats_period,         \* option -stats_period
    env                   \* what the collaborators may do in this run

vars == <<received_sigterm, received_nb_signals, transcode_init_done, pc,
          exit_code, cleanup_ret, cleanup_log, stdin_interaction, output_files, output_streams,
          input_files, input_streams, ost, ret, pi_ret, gp_ret,
          err_rate_exceeded, max_error_rate, exit_on_error, ist, trailer_i,
          calls, loop_exit, print_stats, nb_frames_dup, nb_frames_drop,
          copy_ts_first_pts, progress_avio, reports, last_time, first_report,
          nb_output_dumped, stats_period,
          env>>

sigvars == <<received_sigterm, received_nb_signals>>
cfgvars == <<stdin_interaction, output_files, max_error_rate, exit_on_error, print_stats,
            stats_period, env>>
\* the globals and the output of print_report
repvars == <<nb_frames_dup, nb_frames_drop, copy_ts_first_pts, progress_avio,
             reports, last_time, first_report, nb_output_dumped>>

\* --------------------------------------------------------------- iterators

nb_output_files == Len(output_files)
nb_input_files == Len(input_files)

StreamIds(files) ==
    {id \in (0..(Len(files) - 1)) \X (0..(MaxStreams - 1)) :
        id[2] < files[id[1] + 1].nb_streams}

\* an iterator that looks no further than the next file
iter_from_next_file(files, f_idx, s_idx) ==
    IF f_idx >= Len(files) THEN NULL
    ELSE IF s_idx < files[f_idx + 1].nb_streams THEN <<f_idx, s_idx>>
    ELSE IF f_idx + 1 < Len(files) /\ 0 < files[f_idx + 2].nb_streams
    THEN <<f_idx + 1, 0>>
    ELSE NULL

\* ost_iter(), ist_iter(): the loop over the files, from file f_idx and
\* stream s_idx on
RECURSIVE iter_from(_, _, _)
iter_from(files, f_idx, s_idx) ==
    IF f_idx >= Len(files) THEN NULL
    ELSE IF s_idx < files[f_idx + 1].nb_streams THEN <<f_idx, s_idx>>
    ELSE iter_from(files, f_idx + 1, 0)

ost_iter(prev) ==
    iter_from(output_files,
              IF prev # NULL THEN prev[1] ELSE 0,
              IF prev # NULL THEN prev[2] + 1 ELSE 0)

ist_iter(prev) ==
    iter_from(input_files,
              IF prev # NULL THEN prev[1] ELSE 0,
              IF prev # NULL THEN prev[2] + 1 ELSE 0)

\* order of traversal: file index, then stream index
Before(a, b) == a[1] < b[1] \/ (a[1] = b[1] /\ a[2] < b[2])

\* --------------------------------------------------------- output selector

\* choose_output(): the opts of one stream
ost_opts(s) ==
    IF s.filter /\ s.last_pts # AV_NOPTS_VALUE
    THEN s.last_pts
    ELSE IF s.last_mux_dts = AV_NOPTS_VALUE THEN INT64_MIN ELSE s.last_mux_dts

\* a priming test that forgets inputs_done
ost_needs_priming_no_inputs_done(s) ==
    s.initialized = 0 /\ s.finished = 0

\* choose_output(): the first-pass test that ends the scan
ost_needs_priming(s) ==
    s.initialized = 0 /\ s.inputs_done = 0 /\ s.finished = 0

\* a minimum test that forgets the finished flags
ost_is_new_min_any(s, opts, opts_min) ==
    opts < opts_min

\* choose_output(): the test that makes a stream the new minimum
ost_is_new_min(s, opts, opts_min) ==
    s.finished = 0 /\ opts < opts_min

\* choose_output(): the scan over ost_iter, from stream o on
RECURSIVE choose_output_scan(_, _, _, _)
choose_output_scan(streams, o, opts_min, ost_min) ==
    IF o = NULL THEN ost_min
    ELSE LET s == streams[o]
             opts == ost_opts(s)
             new_min == ost_is_new_min(s, opts, opts_min)
         IN IF ost_needs_priming(s) THEN o
            ELSE choose_output_scan(streams, ost_iter(o),
                                    IF new_min THEN opts ELSE opts_min,
                                    IF new_min THEN o ELSE ost_min)

\* a return statement that ignores the unavailable flag
choose_output_ret_success(s) == 0

\* a return statement that always asks to wait
choose_output_ret_retry(s) == AVERROR(EAGAIN)

\* choose_output(): the value returned once a stream was chosen
choose_output_ret(s) ==
    IF s.unavailable # 0 THEN AVERROR(EAGAIN) ELSE 0

\* choose_output(): the statements after the scan, ost_min being its result
choose_output_end(streams, post, ost_min) ==
    IF ost_min = NULL
    THEN [ret |-> AVERROR_EOF, post |-> post]
    ELSE [ret |-> choose_output_ret(streams[ost_min]), post |-> ost_min]

\* choose_output(post): [ret, post], post being *post after the call
choose_output(streams, post) ==
    choose_output_end(streams, post,
        choose_output_scan(streams, ost_iter(NULL), INT64_MAX, NULL))

\* ------------------------------------------------------------ input driver
\* The operators below work on a record W of the three tables the scheduler
\* changes: os (output streams), is (input streams), ifs (input files).

World == [os |-> output_streams, is |-> input_streams, ifs |-> input_files]

Range(seq) == {seq[k] : k \in DOMAIN seq}

Min(a, b) == IF a < b THEN a ELSE b
Max(a, b) == IF a > b THEN a ELSE b

\* an update of finished that adds the bit's value
BitAdd(x, bit) == x + bit

\* x | bit, for the two-bit field finished
BitOr(x, bit) == IF (x \div bit) % 2 = 1 THEN x ELSE x + bit

NULLPKT == [stream_index |-> -1, dts_est |-> AV_NOPTS_VALUE]

\* a reset that leaves the unavailable flags alone
reset_eagain_files(W) ==
    [W EXCEPT
        !.ifs = [k \in DOMAIN W.ifs |-> [W.ifs[k] EXCEPT !.eagain = 0]]]

reset_eagain(W) ==
    [W EXCEPT
        !.ifs = [k \in DOMAIN W.ifs |-> [W.ifs[k] EXCEPT !.eagain = 0]],
        !.os = [o \in DOMAIN W.os |-> [W.os[o] EXCEPT !.unavailable = 0]]]

\* collaborator (sync queue): sq_send(of->sq_encode, idx, SQFRAME(NULL)) for
\* the stream o; sq_sent is the list of the indices the sentinel was sent at
sq_send(W, o, idx) ==
    [W EXCEPT !.os[o].sq_sent = IF idx \in Range(@) THEN @ ELSE Append(@, idx)]

\* a close that never tells the sync queue
close_output_stream_no_sq(W, o) ==
    [W EXCEPT !.os[o].finished = BitOr(@, ENCODER_FINISHED)]

close_output_stream(W, o) ==
    IF W.os[o].sq_idx_encode >= 0
    THEN sq_send([W EXCEPT !.os[o].finished = BitOr(@, ENCODER_FINISHED)],
                 o, W.os[o].sq_idx_encode)
    ELSE [W EXCEPT !.os[o].finished = BitOr(@, ENCODER_FINISHED)]

\* collaborator (muxer): of_output_packet(of, pkt, ost, 1), the final signal;
\* mux_eof keeps what the sync queue had been sent for the stream when the
\* muxer was first given the signal
of_output_packet_eof(W, o) ==
    [W EXCEPT !.os[o].finished = BitOr(@, MUXER_FINISHED),
              !.os[o].mux_eof = IF @ = <<>> THEN <<W.os[o].sq_sent>> ELSE @]

\* collaborator (muxer): of_streamcopy(ost, pkt, dts); a null packet is the
\* end of the stream, any other packet is muxed and moves last_mux_dts;
\* nb_copied counts the packets the muxer was handed
of_streamcopy(W, o, pkt) ==
    IF pkt = NULLPKT THEN of_output_packet_eof(W, o)
    ELSE IF W.os[o].finished # 0
    THEN [W EXCEPT !.os[o].nb_copied = @ + 1]
    ELSE [W EXCEPT !.os[o].last_mux_dts = Max(@, pkt.dts_est),
                   !.os[o].initialized = 1,
                   !.os[o].packets_written = @ + 1,
                   !.os[o].nb_copied = @ + 1]

\* collaborator (decoder): dec_packet(ist, pkt, no_eof). A packet is decoded
\* to a frame ("frame"), held back ("buffer") or fails ("error"); a null
\* packet drains one held frame per call and then reports end of stream
\* (dec_eof).
dec_packet(W, i, pkt, no_eof, d) ==
    LET s == W.is[i]
    IN IF pkt = NULLPKT
       THEN IF s.buffered > 0
            THEN [W |-> [W EXCEPT !.is[i].buffered = @ - 1,
                             !.is[i].frames_decoded = Min(@ + 1, MaxBuffered)],
                  ret |-> 0]
            ELSE [W |-> [W EXCEPT !.is[i].dec_eof = TRUE], ret |-> AVERROR_EOF]
       ELSE IF d = "error"
            THEN [W |-> [W EXCEPT !.is[i].decode_errors = Min(@ + 1, MaxBuffered)],
                  ret |-> AVERROR(EIO)]
            ELSE IF d = "buffer"
            THEN [W |-> [W EXCEPT !.is[i].buffered = Min(@ + 1, MaxBuffered)],
                  ret |-> 0]
            ELSE [W |-> [W EXCEPT !.is[i].frames_decoded = Min(@ + 1, MaxBuffered)],
                  ret |-> 0]

\* a limit that lets the packet at the limit through
duration_exceeded_after(f, dts_est) ==
    f.recording_time # INT64_MAX /\ dts_est > f.recording_time

\* process_input_packet(): the test of the recording-time limit
duration_exceeded(f, dts_est) ==
    IF f.recording_time # INT64_MAX
    THEN LET start_time ==
                 IF env.copy_ts
                 THEN (IF f.start_time # AV_NOPTS_VALUE THEN f.start_time ELSE 0)
                      + (IF env.start_at_zero THEN 0 ELSE f.start_time_effective)
                 ELSE 0
         IN dts_est >= f.recording_time + start_time
    ELSE FALSE

\* a loop body that forwards the null packet of a flush as well
pip_output_flush(W, o, pkt, no_eof, exceeded) ==
    IF W.os[o].enc THEN W
    ELSE IF exceeded THEN close_output_stream(W, o)
    ELSE of_streamcopy(W, o, pkt)

\* process_input_packet(): the body of the loop over ist->outputs
pip_output(W, o, pkt, no_eof, exceeded) ==
    IF W.os[o].enc \/ (pkt = NULLPKT /\ no_eof # 0) THEN W
    ELSE IF exceeded THEN close_output_stream(W, o)
    ELSE of_streamcopy(W, o, pkt)

\* process_input_packet(): the loop over ist->outputs, from oidx on
RECURSIVE pip_outputs(_, _, _, _, _, _)
pip_outputs(W, outputs, oidx, pkt, no_eof, exceeded) ==
    IF oidx > Len(outputs) THEN W
    ELSE pip_outputs(pip_output(W, outputs[oidx], pkt, no_eof, exceeded),
                     outputs, oidx + 1, pkt, no_eof, exceeded)

\* process_input_packet(): the statements after the decoding, dec being
\* [W, ret] of dec_packet, or of no call when the stream is not decoded
pip_after_dec(i, pkt, no_eof, dec) ==
    LET f == dec.W.ifs[i[1] + 1]
        ist_ == dec.W.is[i]
        eof_reached == dec.ret = AVERROR_EOF
                       \/ (pkt = NULLPKT /\ ~ist_.decoding_needed)
        dts_est == pkt.dts_est
    IN [W |-> pip_outputs(dec.W, ist_.outputs, 1, pkt, no_eof,
                          duration_exceeded(f, dts_est)),
        ret |-> IF eof_reached THEN 0 ELSE 1]

\* process_input_packet(ist, pkt, no_eof): [W, ret]
process_input_packet(W, i, pkt, no_eof, d) ==
    pip_after_dec(i, pkt, no_eof,
                  IF W.is[i].decoding_needed
                  THEN dec_packet(W, i, pkt, no_eof, d)
                  ELSE [W |-> W, ret |-> 0])

\* decode_flush(): the do-while loop of one stream; r is [W, ret] of the
\* last process_input_packet(ist, NULL, 1)
RECURSIVE decode_flush_while(_, _)
decode_flush_while(r, i) ==
    IF r.ret > 0
    THEN decode_flush_while(process_input_packet(r.W, i, NULLPKT, 1, "frame"), i)
    ELSE r.W

\* collaborator (libavcodec): avcodec_flush_buffers(ist->dec_ctx) drops what
\* the decoder holds and lets it take packets again; flushed keeps whether
\* the decoder had reported end of stream when it was last flushed
avcodec_flush_buffers(W, i) ==
    [W EXCEPT !.is[i].buffered = 0,
              !.is[i].dec_eof = FALSE,
              !.is[i].flushed = <<W.is[i].dec_eof>>]

\* decode_flush(): the statements after the do-while loop
decode_flush_reset(W, i) ==
    IF W.is[i].decoding_needed THEN avcodec_flush_buffers(W, i) ELSE W

\* a flush that sends the decoder one null packet only
decode_flush_stream_once(W, i) ==
    decode_flush_reset(process_input_packet(W, i, NULLPKT, 1, "frame").W, i)

decode_flush_stream(W, i) ==
    decode_flush_reset(
        decode_flush_while(process_input_packet(W, i, NULLPKT, 1, "frame"), i), i)

\* decode_flush(ifile): the loop over the streams of the file, from i on
RECURSIVE decode_flush(_, _, _)
decode_flush(W, file_index, i) ==
    IF i >= W.ifs[file_index + 1].nb_streams THEN W
    ELSE decode_flush(IF W.is[<<file_index, i>>].discard THEN W
                      ELSE decode_flush_stream(W, <<file_index, i>>),
                      file_index, i + 1)

\* process_input(): the body of the loop over ist->outputs at end of file;
\* nb_eof counts, up to MaxDts + 1, how often the stream went through it
pi_close_output(W, o) ==
    [of_output_packet_eof(close_output_stream(W, o), o)
        EXCEPT !.os[o].nb_eof = Min(@ + 1, MaxDts + 1)]

\* process_input(): closing the outputs of one stream at end of file
RECURSIVE pi_close_outputs(_, _, _)
pi_close_outputs(W, outputs, oidx) ==
    IF oidx > Len(outputs) THEN W
    ELSE pi_close_outputs(pi_close_output(W, outputs[oidx]), outputs, oidx + 1)

\* process_input(): the end-of-file loop over the streams, from i on;
\* pi_eof_stream is the body of the loop after the stream was flushed, r
\* being [W, ret] of process_input_packet(ist, NULL, 0)
RECURSIVE pi_eof(_, _, _), pi_eof_stream(_, _, _)
pi_eof(W, file_index, i) ==
    IF i >= W.ifs[file_index + 1].nb_streams
    THEN [W |-> [W EXCEPT !.ifs[file_index + 1].eof_reached = 1],
          ret |-> AVERROR(EAGAIN), exit |-> FALSE]
    ELSE pi_eof_stream(IF W.is[<<file_index, i>>].discard
                       THEN [W |-> W, ret |-> 0]
                       ELSE process_input_packet(W, <<file_index, i>>,
                                                 NULLPKT, 0, "frame"),
                       file_index, i)

\* an end-of-file loop that does not wait for the decoders
pi_eof_stream_no_wait(r, file_index, i) ==
    pi_eof(pi_close_outputs(r.W, r.W.is[<<file_index, i>>].outputs, 1),
           file_index, i + 1)

pi_eof_stream(r, file_index, i) ==
    IF r.ret > 0
    THEN [W |-> r.W, ret |-> 0, exit |-> FALSE]
    ELSE pi_eof(pi_close_outputs(r.W, r.W.is[<<file_index, i>>].outputs, 1),
                file_index, i + 1)

\* collaborator (demuxer): what ifile_get_packet may return for a file:
\* retry-again, 1 (the input was looped), end of file, an error, a packet
GetPacketOutcomes(W, file_index) ==
    LET f == W.ifs[file_index + 1]
    IN IF f.demux_eof THEN {[ret |-> AVERROR_EOF, pkt |-> NULLPKT]}
       ELSE (IF file_index \in env.ready THEN {}
             ELSE {[ret |-> AVERROR(EAGAIN), pkt |-> NULLPKT]})
            \cup (IF f.loops_left > 0
                  THEN {[ret |-> 1, pkt |-> NULLPKT]} ELSE {})
            \cup (IF env.eof \/ f.pos > MaxDts
                  THEN {[ret |-> AVERROR_EOF, pkt |-> NULLPKT]} ELSE {})
            \cup (IF env.errors
                  THEN {[ret |-> AVERROR(EIO), pkt |-> NULLPKT]} ELSE {})
            \cup (IF f.pos <= MaxDts
                  THEN {[ret |-> 0, pkt |-> [stream_index |-> i, dts_est |-> f.pos]] :
                            i \in 0..(f.nb_streams - 1)}
                  ELSE {})

\* collaborator (demuxer): its own state after ifile_get_packet returned gp
ifile_get_packet(W, file_index, gp) ==
    IF gp.ret = 0 THEN [W EXCEPT !.ifs[file_index + 1].pos = @ + 1]
    ELSE IF gp.ret = 1 THEN [W EXCEPT !.ifs[file_index + 1].loops_left = @ - 1]
    ELSE IF gp.ret = AVERROR(EAGAIN) THEN W
    ELSE [W EXCEPT !.ifs[file_index + 1].demux_eof = TRUE]

\* an input driver that takes every negative return for retry-again
pi_after_get_packet_retry(W, file_index, gp, d) ==
    IF gp.ret < 0
    THEN [W |-> [W EXCEPT !.ifs[file_index + 1].eagain = 1],
          ret |-> AVERROR(EAGAIN), exit |-> FALSE]
    ELSE IF gp.ret = 1
    THEN [W |-> decode_flush(W, file_index, 0),
          ret |-> AVERROR(EAGAIN), exit |-> FALSE]
    ELSE [W |-> process_input_packet(reset_eagain(W),
                    <<file_index, gp.pkt.stream_index>>, gp.pkt, 0, d).W,
          ret |-> 0, exit |-> FALSE]

\* an input driver that dispatches a packet without resetting the flags
pi_after_get_packet_no_reset(W, file_index, gp, d) ==
    IF gp.ret = AVERROR(EAGAIN)
    THEN [W |-> [W EXCEPT !.ifs[file_index + 1].eagain = 1],
          ret |-> gp.ret, exit |-> FALSE]
    ELSE IF gp.ret = 1
    THEN [W |-> decode_flush(W, file_index, 0),
          ret |-> AVERROR(EAGAIN), exit |-> FALSE]
    ELSE IF gp.ret < 0
    THEN IF gp.ret # AVERROR_EOF /\ exit_on_error
         THEN [W |-> W, ret |-> gp.ret, exit |-> TRUE]
         ELSE pi_eof(W, file_index, 0)
    ELSE [W |-> process_input_packet(W,
                    <<file_index, gp.pkt.stream_index>>, gp.pkt, 0, d).W,
          ret |-> 0, exit |-> FALSE]

\* process_input(): the statements after ifile_get_packet returned gp
pi_after_get_packet(W, file_index, gp, d) ==
    IF gp.ret = AVERROR(EAGAIN)
    THEN [W |-> [W EXCEPT !.ifs[file_index + 1].eagain = 1],
          ret |-> gp.ret, exit |-> FALSE]
    ELSE IF gp.ret = 1
    THEN [W |-> decode_flush(W, file_index, 0),
          ret |-> AVERROR(EAGAIN), exit |-> FALSE]
    ELSE IF gp.ret < 0
    THEN IF gp.ret # AVERROR_EOF /\ exit_on_error
         THEN [W |-> W, ret |-> gp.ret, exit |-> TRUE]
         ELSE pi_eof(W, file_index, 0)
    ELSE [W |-> process_input_packet(reset_eagain(W),
                    <<file_index, gp.pkt.stream_index>>, gp.pkt, 0, d).W,
          ret |-> 0, exit |-> FALSE]

\* process_input(file_index): [W, ret, exit]; exit is set where the code
\* calls exit_program(1)
process_input(W, file_index, gp, d) ==
    pi_after_get_packet(ifile_get_packet(W, file_index, gp), file_index, gp, d)

\* ---------------------------------------------------------- transcode step

EncodedStreams(W) == {o \in DOMAIN W.os : W.os[o].enc}

\* collaborator (filter graph, encoder, muxer): what one call does to an
\* encoded stream: nothing ("none"), output up to a later timestamp
\* ("output"), or, once its inputs ended, the end of the stream ("finish")
enc_advance(W, o, act) ==
    LET s == W.os[o]
    IN IF act = "output" /\ s.finished = 0
       THEN [W EXCEPT !.os[o] =
                [s EXCEPT !.initialized = 1,
                          !.packets_written = Min(@ + 1, MaxDts + 1),
                          !.last_pts = IF @ = AV_NOPTS_VALUE THEN 0 ELSE Min(@ + 1, MaxDts),
                          !.last_mux_dts = IF s.last_pts = AV_NOPTS_VALUE THEN @ ELSE s.last_pts]]
       ELSE IF act = "finish" /\ \A i \in s.fg_inputs : W.ifs[i[1] + 1].eof_reached # 0
       THEN [W EXCEPT !.os[o] =
                [s EXCEPT !.inputs_done = 1,
                          !.finished = BitOr(BitOr(@, ENCODER_FINISHED), MUXER_FINISHED)]]
       ELSE W

LibErrors == IF env.errors THEN {AVERROR(EIO)} ELSE {}

\* collaborator: fg_transcode_step(graph, &ist): an error, no input stream
\* named, or one of the inputs of the graph
FgOutcomes(W, o) ==
    {[ret |-> e, ist |-> NULL] : e \in LibErrors \cup {0}}
    \cup {[ret |-> 0, ist |-> i] : i \in W.os[o].fg_inputs}

\* collaborator: reap_filters(0): what it may do (rf) and what it does
ReapChoices(W) ==
    {[ret |-> e, o |-> o, act |-> act] :
        e \in LibErrors \cup {0}, o \in EncodedStreams(W), act \in {"output", "finish"}}
    \cup {[ret |-> e, o |-> NULL, act |-> "none"] : e \in LibErrors \cup {0}}

reap_filters(W, rf) ==
    [W |-> IF rf.o = NULL THEN W ELSE enc_advance(W, rf.o, rf.act), ret |-> rf.ret]

\* collaborator (decoder): what dec_packet may do with the packet read
DecOutcomes(W, file_index, gp) ==
    IF gp.ret = 0 /\ W.is[<<file_index, gp.pkt.stream_index>>].decoding_needed
    THEN {"frame", "buffer", "error"}
    ELSE {"frame"}

\* transcode_step(): the input stream whose file is read
step_ist(W, o, fg) == IF W.os[o].filter THEN fg.ist ELSE W.os[o].ist

\* a step that marks the stream after every retry-again
step_mark_unavailable_always(W, o, file_index) ==
    [W EXCEPT !.os[o].unavailable = 1]

\* transcode_step(): marking the stream after a retry-again
step_mark_unavailable(W, o, file_index) ==
    IF W.ifs[file_index + 1].eagain # 0
    THEN [W EXCEPT !.os[o].unavailable = 1]
    ELSE W

\* transcode_step(ost) up to its last statement: [W, ret, pi, exit, reap];
\* pi is <<>> when process_input was not called and <<its return value>>
\* otherwise, reap is set when the step goes on to return reap_filters(0)
transcode_step_after_input(o, file_index, r) ==
    IF r.exit
    THEN [W |-> r.W, ret |-> r.ret, pi |-> <<r.ret>>, exit |-> TRUE,
          reap |-> FALSE]
    ELSE IF r.ret = AVERROR(EAGAIN)
    THEN [W |-> step_mark_unavailable(r.W, o, file_index), ret |-> 0,
          pi |-> <<r.ret>>, exit |-> FALSE, reap |-> FALSE]
    ELSE IF r.ret < 0
    THEN [W |-> r.W, ret |-> IF r.ret = AVERROR_EOF THEN 0 ELSE r.ret,
          pi |-> <<r.ret>>, exit |-> FALSE, reap |-> FALSE]
    ELSE [W |-> r.W, ret |-> 0, pi |-> <<r.ret>>, exit |-> FALSE,
          reap |-> TRUE]

transcode_step_input(W, o, fg, gp, d) ==
    IF W.os[o].filter /\ fg.ret < 0
    THEN [W |-> W, ret |-> fg.ret, pi |-> <<>>, exit |-> FALSE, reap |-> FALSE]
    ELSE IF W.os[o].filter /\ fg.ist = NULL
    THEN [W |-> W, ret |-> 0, pi |-> <<>>, exit |-> FALSE, reap |-> FALSE]
    ELSE transcode_step_after_input(o, step_ist(W, o, fg)[1],
             process_input(W, step_ist(W, o, fg)[1], gp, d))

\* transcode_step(): its last statement, return reap_filters(0)
transcode_step_reap(r, rf) ==
    IF r.reap
    THEN [W |-> reap_filters(r.W, rf).W, ret |-> rf.ret, pi |-> r.pi,
          exit |-> FALSE]
    ELSE [W |-> r.W, ret |-> r.ret, pi |-> r.pi, exit |-> r.exit]

\* transcode_step(ost): [W, ret, pi, exit]
transcode_step(W, o, fg, gp, d, rf) ==
    transcode_step_reap(transcode_step_input(W, o, fg, gp, d), rf)

\* ----------------------------------------------------------- the pipelines

OFile(nb_streams) == [nb_streams |-> nb_streams, filesize |-> 0]

OStream(i, enc, fg_inputs) ==
    [finished |-> 0, initialized |-> IF enc THEN 0 ELSE 1, inputs_done |-> 0,
     unavailable |-> 0, last_mux_dts |-> AV_NOPTS_VALUE, filter |-> enc,
     last_pts |-> AV_NOPTS_VALUE, enc |-> enc, ist |-> i, fg_inputs |-> fg_inputs,
     sq_idx_encode |-> IF enc THEN 0 ELSE -1, sq_sent |-> <<>>,
     mux_eof |-> <<>>, nb_copied |-> 0, video |-> enc, packets_written |-> 0,
     last_dropped |-> 0, nb_eof |-> 0]

IStream(decoding_needed, outputs) ==
    [discard |-> FALSE, decoding_needed |-> decoding_needed, outputs |-> outputs,
     frames_decoded |-> 0, decode_errors |-> 0, buffered |-> 0,
     dec_eof |-> FALSE, flushed |-> <<>>]

IFile(nb_streams, recording_time, loops) ==
    [nb_streams |-> nb_streams, eagain |-> 0, eof_reached |-> 0,
     recording_time |-> recording_time, start_time |-> AV_NOPTS_VALUE,
     start_time_effective |-> 0, pos |-> 0, demux_eof |-> FALSE,
     loops_left |-> loops]

\* two input files of one stream each, each copied to an output file of its own
CopyPipeline(rt) ==
    [output_files |-> <<OFile(1), OFile(1)>>,
     output_streams |-> (<<0, 0>> :> OStream(<<0, 0>>, FALSE, {})
                         @@ <<1, 0>> :> OStream(<<1, 0>>, FALSE, {})),
     input_files |-> <<IFile(1, rt, 0), IFile(1, INT64_MAX, 0)>>,
     input_streams |-> (<<0, 0>> :> IStream(FALSE, <<<<0, 0>>>>)
                        @@ <<1, 0>> :> IStream(FALSE, <<<<1, 0>>>>))]

\* one input file of two streams: the first decoded, filtered and encoded,
\* the second copied, both into one output file
MixedPipeline(loops) ==
    [output_files |-> <<OFile(2)>>,
     output_streams |-> (<<0, 0>> :> OStream(NULL, TRUE, {<<0, 0>>})
                         @@ <<0, 1>> :> OStream(<<0, 1>>, FALSE, {})),
     input_files |-> <<IFile(2, INT64_MAX, loops)>>,
     input_streams |-> (<<0, 0>> :> IStream(TRUE, <<>>)
                        @@ <<0, 1>> :> IStream(FALSE, <<<<0, 1>>>>))]

\* one input stream, decoded, with a recording-time limit rt: copied into
\* both output files and, through a filter graph, encoded into the first
LimitedPipeline(rt) ==
    [output_files |-> <<OFile(2), OFile(1)>>,
     output_streams |-> (<<0, 0>> :> OStream(<<0, 0>>, FALSE, {})
                         @@ <<0, 1>> :> OStream(<<0, 0>>, TRUE, {<<0, 0>>})
                         @@ <<1, 0>> :> OStream(<<0, 0>>, FALSE, {})),
     input_files |-> <<[IFile(1, rt, 0) EXCEPT !.start_time_effective = 1]>>,
     input_streams |-> (<<0, 0>> :> IStream(TRUE, <<<<0, 0>>, <<0, 1>>, <<1, 0>>>>))]

\* the runs explored: a pipeline and the options -stdin, -xerror, -copyts
\* and -max_error_rate (2/3 is its default)
Scenarios ==
    {[p |-> CopyPipeline(1), stdin |-> i, xerror |-> x, copy_ts |-> FALSE,
      max_error_rate |-> <<2, 3>>] : i \in BOOLEAN, x \in BOOLEAN}
    \cup {[p |-> MixedPipeline(1), stdin |-> FALSE, xerror |-> FALSE,
           copy_ts |-> FALSE, max_error_rate |-> <<1, 3>>]}
    \cup {[p |-> LimitedPipeline(rt), stdin |-> FALSE, xerror |-> FALSE,
           copy_ts |-> c, max_error_rate |-> <<2, 3>>] :
              rt \in {0, 1}, c \in BOOLEAN}

\* ------------------------------------------------------------------ signals

\* a handler that ends the process one signal later
too_many_signals_late(nb) == nb > 4

\* sigterm_handler(): the test that ends the process
too_many_signals(nb) == nb > 3

\* sigterm_handler(sig), run to its end on the interrupted main thread
sigterm_handler(sig) ==
    /\ pc # "exited"
    /\ received_sigterm' = sig
    /\ received_nb_signals' = received_nb_signals + 1
    /\ IF too_many_signals(received_nb_signals + 1)
       THEN pc' = "exited" /\ exit_code' = <<123>>
       ELSE UNCHANGED <<pc, exit_code>>
    /\ UNCHANGED <<repvars, transcode_init_done, cleanup_ret, cleanup_log, cfgvars,
                   output_streams, input_files, input_streams, ost, ret, pi_ret,
                   gp_ret, err_rate_exceeded, ist, trailer_i, calls, loop_exit>>

Signal == \E sig \in Signals : sigterm_handler(sig)

\* an interrupt predicate that ignores transcode_init_done
decode_interrupt_cb_any == received_nb_signals > 0

decode_interrupt_cb == received_nb_signals > transcode_init_done

\* -------------------------------------------------------------------- main

\* exit_program(v): ffmpeg_cleanup(v) is entered
exit_program(v) ==
    /\ cleanup_ret' = <<v>>
    /\ pc' = "cleanup"

\* main(): ffmpeg_parse_options() and the tests that follow it
ParseOptions ==
    /\ pc = "parse"
    /\ \E ok \in {TRUE} \cup {~env.errors} :
          IF ok THEN pc' = "transcode" /\ UNCHANGED cleanup_ret
          ELSE exit_program(1)
    /\ UNCHANGED <<sigvars, cleanup_log, repvars, transcode_init_done, exit_code, cfgvars,
                   output_streams, input_files, input_streams, ost, ret, pi_ret,
                   gp_ret, err_rate_exceeded, ist, trailer_i, calls, loop_exit>>

\* transcode(): up to the main loop
TranscodeInit ==
    /\ pc = "transcode"
    /\ err_rate_exceeded' = 0
    /\ transcode_init_done' = 1
    /\ ret' = 0
    /\ pc' = "loop"
    /\ UNCHANGED <<sigvars, cleanup_log, repvars, exit_code, cleanup_ret, cfgvars, output_streams,
                   input_files, input_streams, ost, pi_ret, gp_ret, ist,
                   trailer_i, calls, loop_exit>>

\* a loop that never tests received_sigterm
loop_test_always == TRUE

\* transcode(): while (!received_sigterm)
loop_test == received_sigterm = 0

LoopTest ==
    /\ pc = "loop"
    /\ IF loop_test
       THEN pc' = (IF stdin_interaction THEN "keyboard" ELSE "choose")
            /\ UNCHANGED <<ist, loop_exit>>
       ELSE pc' = "flush" /\ ist' = ist_iter(NULL)
            /\ loop_exit' = <<[cause |-> "signal", ret |-> ret]>>
    /\ UNCHANGED <<sigvars, cleanup_log, repvars, transcode_init_done, exit_code, cleanup_ret, cfgvars,
                   output_streams, input_files, input_streams, ost, ret, pi_ret,
                   gp_ret, err_rate_exceeded, trailer_i, calls>>

\* check_keyboard_interaction(): its return value for the key read
check_keyboard_interaction(key) ==
    IF received_nb_signals # 0 THEN AVERROR_EXIT
    ELSE IF key = "q" THEN AVERROR_EXIT
    ELSE 0

Keyboard ==
    /\ pc = "keyboard"
    /\ \E key \in {"none", "q"} :
          IF check_keyboard_interaction(key) < 0
          THEN pc' = "flush" /\ ist' = ist_iter(NULL)
               /\ loop_exit' = <<[cause |-> "key", ret |-> ret]>>
          ELSE pc' = "choose" /\ UNCHANGED <<ist, loop_exit>>
    /\ UNCHANGED <<sigvars, cleanup_log, repvars, transcode_init_done, exit_code, cleanup_ret, cfgvars,
                   output_streams, input_files, input_streams, ost, ret, pi_ret,
                   gp_ret, err_rate_exceeded, trailer_i, calls>>

\* transcode(): ret = choose_output(&ost) and the branches on it
choose_branch(r, W) ==
    /\ ost' = r.post
    /\ IF r.ret = AVERROR(EAGAIN)
       THEN /\ ret' = r.ret
            /\ output_streams' = W.os
            /\ input_files' = W.ifs
            /\ pc' = "sleep"
            /\ UNCHANGED <<ist, loop_exit>>
       ELSE IF r.ret < 0
       THEN /\ ret' = 0
            /\ pc' = "flush"
            /\ ist' = ist_iter(NULL)
            /\ loop_exit' = <<[cause |-> "eof", ret |-> 0]>>
            /\ UNCHANGED <<output_streams, input_files>>
       ELSE /\ ret' = r.ret
            /\ pc' = "step"
            /\ UNCHANGED <<output_streams, input_files, ist, loop_exit>>

Choose ==
    /\ pc = "choose"
    /\ choose_branch(choose_output(output_streams, ost), reset_eagain(World))
    /\ UNCHANGED <<sigvars, cleanup_log, repvars, transcode_init_done, exit_code, cleanup_ret, cfgvars,
                   input_streams, pi_ret, gp_ret, err_rate_exceeded, trailer_i,
                   calls>>

\* transcode(): av_usleep(10000); continue
Sleep ==
    /\ pc = "sleep"
    /\ pc' = "loop"
    /\ UNCHANGED <<sigvars, cleanup_log, repvars, transcode_init_done, exit_code,
                   cleanup_ret, cfgvars, output_streams, input_files,
                   input_streams, ost, ret, pi_ret, gp_ret, err_rate_exceeded,
                   ist, trailer_i, calls, loop_exit>>

\* what ifile_get_packet may return in this transcode step, if it is called
StepPacketOutcomes(W, o, fg) ==
    IF step_ist(W, o, fg) = NULL
    THEN {[ret |-> AVERROR(EAGAIN), pkt |-> NULLPKT]}
    ELSE GetPacketOutcomes(W, step_ist(W, o, fg)[1])

StepDecOutcomes(W, o, fg, gp) ==
    IF step_ist(W, o, fg) = NULL THEN {"frame"}
    ELSE DecOutcomes(W, step_ist(W, o, fg)[1], gp)

\* what reap_filters may do in this transcode step, if it is called
StepReapChoices(r) ==
    IF r.reap THEN ReapChoices(r.W) ELSE {[ret |-> 0, o |-> NULL, act |-> "none"]}

\* a test that takes every return value but a positive one for an error
step_failed_any(r) == r <= 0

\* transcode(): if (ret < 0 && ret != AVERROR_EOF) break
step_failed(r) == r < 0 /\ r # AVERROR_EOF

\* transcode(): the test on the value r.ret of transcode_step(ost)
step_branch(r, gp) ==
    /\ output_streams' = r.W.os
    /\ input_streams' = r.W.is
    /\ input_files' = r.W.ifs
    /\ pi_ret' = r.pi
    /\ gp_ret' = IF r.pi = <<>> THEN gp_ret ELSE <<gp.ret>>
    /\ IF r.exit
       THEN exit_program(1) /\ UNCHANGED <<ret, ist, loop_exit>>
       ELSE /\ ret' = r.ret
            /\ UNCHANGED cleanup_ret
            /\ IF step_failed(r.ret)
               THEN pc' = "flush" /\ ist' = ist_iter(NULL)
                    /\ loop_exit' = <<[cause |-> "error", ret |-> r.ret]>>
               ELSE pc' = "report" /\ UNCHANGED <<ist, loop_exit>>

\* transcode(): ret = transcode_step(ost)
Step ==
    /\ pc = "step"
    /\ \E fg \in FgOutcomes(World, ost) :
       \E gp \in StepPacketOutcomes(World, ost, fg) :
       \E d \in StepDecOutcomes(World, ost, fg, gp) :
       \E r \in {transcode_step_input(World, ost, fg, gp, d)} :
       \E rf \in StepReapChoices(r) :
       \E q \in {transcode_step_reap(r, rf)} :
          step_branch(q, gp)
    /\ UNCHANGED <<sigvars, cleanup_log, repvars, transcode_init_done, exit_code, cfgvars, ost,
                   err_rate_exceeded, trailer_i, calls>>

\* ------------------------------------------------------------ the reporter

\* collaborator (muxer): of_filesize(of)
of_filesize(f) == f.filesize

\* a final report that leaves nb_frames_drop alone
report_drop_never(drop, s, is_last_report) == drop

\* print_report(): if (is_last_report) nb_frames_drop += ost->last_dropped
report_drop(drop, s, is_last_report) ==
    IF is_last_report # 0 THEN drop + s.last_dropped ELSE drop

\* an assignment that does not test whether copy_ts_first_pts is still unset
report_first_pts_always(first, p) ==
    IF env.copy_ts /\ p > 1 THEN p ELSE first

\* print_report(): copy_ts_first_pts after a stream, p being
\* FFMAX(pts, ost->last_mux_dts)
report_first_pts(first, p) ==
    IF env.copy_ts /\ first = AV_NOPTS_VALUE /\ p > 1 THEN p ELSE first

\* print_report(): pts after a stream, first being copy_ts_first_pts
report_pts(first, p) ==
    IF env.copy_ts /\ first # AV_NOPTS_VALUE THEN p - first ELSE p

\* print_report(): the body of the loop over the output streams; acc holds
\* vid, the frame number of the first video stream (<<>> if none so far),
\* pts, copy_ts_first_pts (first) and nb_frames_drop (drop)
report_stream(acc, s, is_last_report) ==
    [vid |-> acc.vid \/ s.video,
     frame |-> IF ~acc.vid /\ s.video THEN <<s.packets_written>> ELSE acc.frame,
     first |-> IF s.last_mux_dts # AV_NOPTS_VALUE
               THEN report_first_pts(acc.first, Max(acc.pts, s.last_mux_dts))
               ELSE acc.first,
     pts |-> IF s.last_mux_dts # AV_NOPTS_VALUE
             THEN report_pts(report_first_pts(acc.first,
                                              Max(acc.pts, s.last_mux_dts)),
                             Max(acc.pts, s.last_mux_dts))
             ELSE acc.pts,
     drop |-> report_drop(acc.drop, s, is_last_report)]

\* print_report(): the loop over the output streams, from o on
RECURSIVE report_streams(_, _, _)
report_streams(acc, o, is_last_report) ==
    IF o = NULL THEN acc
    ELSE report_streams(report_stream(acc, output_streams[o], is_last_report),
                        ost_iter(o), is_last_report)

\* print_report(): its locals and the globals it reads, before the loop
report_start ==
    [vid |-> FALSE, frame |-> <<>>, pts |-> INT64_MIN + 1,
     first |-> copy_ts_first_pts, drop |-> nb_frames_drop]

AV_TIME_BASE == 1000000

FFABS(a) == IF a >= 0 THEN a ELSE 0 - a

\* print_report(): what it puts in buf_script, a value that is printed as
\* N/A being <<>>; fps and speed, computed from the clock, are left out;
\* bitrate is kept as the fraction <<total_size * 8 * 1000, pts>>
report_script(acc, total_size, is_last_report) ==
    [frame |-> acc.frame,
     bitrate |-> IF acc.pts # 0 /\ total_size >= 0
                    /\ ~(acc.pts < 0 /\ total_size > 0)
                 THEN <<total_size * 8000, acc.pts>> ELSE <<>>,
     total_size |-> IF total_size < 0 THEN <<>> ELSE <<total_size>>,
     out_time_us |-> IF acc.pts = AV_NOPTS_VALUE THEN <<>> ELSE <<acc.pts>>,
     out_time_ms |-> IF acc.pts = AV_NOPTS_VALUE THEN <<>> ELSE <<acc.pts>>,
     out_time |-> IF acc.pts = AV_NOPTS_VALUE THEN <<>>
                  ELSE <<IF acc.pts < 0 THEN "-" ELSE "",
                         FFABS(acc.pts) \div AV_TIME_BASE,
                         FFABS(acc.pts) % AV_TIME_BASE>>,
     dup_frames |-> nb_frames_dup,
     drop_frames |-> acc.drop,
     progress |-> IF ~progress_avio THEN <<>>
                  ELSE IF is_last_report # 0 THEN <<"end">> ELSE <<"continue">>]

\* print_report(): the statements after the loop over the output streams;
\* a record of reports keeps whether the human line was logged, whether the
\* script was written to the progress output and, for a report that is not
\* the last one, the time of the call (at)
print_report_end(acc, is_last_report, cur_time) ==
    /\ copy_ts_first_pts' = acc.first
    /\ nb_frames_drop' = acc.drop
    /\ reports' = Append(reports,
                     [is_last_report |-> is_last_report,
                      at |-> IF is_last_report = 0 THEN <<cur_time>> ELSE <<>>,
                      logged |-> (print_stats \/ is_last_report # 0),
                      written |-> progress_avio,
                      script |-> report_script(acc, of_filesize(output_files[1]),
                                               is_last_report)])
    /\ progress_avio' = (progress_avio /\ is_last_report = 0)
    /\ last_time' = IF is_last_report = 0 THEN cur_time ELSE last_time
    /\ first_report' = 0
    /\ UNCHANGED <<nb_frames_dup, nb_output_dumped>>

\* print_report(): if (!print_stats && !is_last_report && !progress_avio)
report_off(is_last_report) ==
    ~print_stats /\ is_last_report = 0 /\ ~progress_avio

\* print_report(): last_time after if (last_time == -1) last_time = cur_time
report_last_time(cur_time) == IF last_time = -1 THEN cur_time ELSE last_time

\* a test that does not wait for the output files to be dumped
report_suppressed_no_dump(cur_time) ==
    (cur_time - report_last_time(cur_time)) < stats_period /\ first_report = 0

\* print_report(): the test that makes a report that is not the last return
report_suppressed(cur_time) ==
    \/ ((cur_time - report_last_time(cur_time)) < stats_period
            /\ first_report = 0)
    \/ (first_report # 0 /\ nb_output_dumped < nb_output_files)

\* print_report(is_last_report, timer_start, cur_time)
print_report(is_last_report, cur_time) ==
    IF report_off(is_last_report)
    THEN UNCHANGED repvars
    ELSE IF is_last_report = 0 /\ report_suppressed(cur_time)
    THEN /\ last_time' = report_last_time(cur_time)
         /\ UNCHANGED <<nb_frames_dup, nb_frames_drop, copy_ts_first_pts,
                        progress_avio, reports, first_report, nb_output_dumped>>
    ELSE print_report_end(report_streams(report_start, ost_iter(NULL),
                                         is_last_report),
                          is_last_report, cur_time)

\* collaborator (clock): what av_gettime_relative() may return, the clock
\* being monotonic
Times == {t \in 0..MaxTime : t >= last_time}

\* transcode(): print_report(0, timer_start, cur_time)
Report ==
    /\ pc = "report"
    /\ pc' = "loop"
    /\ \E cur_time \in Times : print_report(0, cur_time)
    /\ UNCHANGED <<sigvars, cleanup_log, transcode_init_done, exit_code, cleanup_ret, cfgvars,
                   output_streams, input_files, input_streams, ost, ret, pi_ret,
                   gp_ret, err_rate_exceeded, ist, trailer_i, calls, loop_exit>>

\* transcode(): the decode error rate of one input stream (the operands are
\* uint64_t, the quotient is converted to float)
err_rate(s) ==
    IF s.frames_decoded # 0 \/ s.decode_errors # 0
    THEN s.decode_errors \div (s.frames_decoded + s.decode_errors)
    ELSE 0

\* err_rate > max_error_rate, max_error_rate being <<numerator, denominator>>
exceeds(rate, max) == rate * max[2] > max[1]

\* transcode(): the flush loop, after the decoder of ist was sent EOF
flush_ist(W) ==
    /\ output_streams' = W.os
    /\ input_streams' = W.is
    /\ input_files' = W.ifs
    /\ err_rate_exceeded' =
           IF exceeds(err_rate(W.is[ist]), max_error_rate)
           THEN 1 ELSE err_rate_exceeded
    /\ ist' = ist_iter(ist)
    /\ UNCHANGED pc

\* transcode(): one round of the loop that flushes the decoders
Flush ==
    /\ pc = "flush"
    /\ IF ist = NULL
       THEN /\ pc' = "enc_flush"
            /\ UNCHANGED <<output_streams, input_streams, input_files, ist,
                           err_rate_exceeded>>
       ELSE flush_ist(IF input_files[ist[1] + 1].eof_reached = 0
                      THEN process_input_packet(World, ist, NULLPKT, 0, "frame").W
                      ELSE World)
    /\ calls' = IF ist # NULL /\ input_files[ist[1] + 1].eof_reached = 0
                THEN Append(calls, <<"process_input_packet", ist>>)
                ELSE calls
    /\ UNCHANGED <<sigvars, cleanup_log, repvars, transcode_init_done, exit_code, cleanup_ret, cfgvars,
                   ost, ret, pi_ret, gp_ret, trailer_i, loop_exit>>

\* transcode(): enc_flush() and term_exit()
EncFlush ==
    /\ pc = "enc_flush"
    /\ pc' = "trailer"
    /\ trailer_i' = 0
    /\ calls' = calls \o << <<"enc_flush">>, <<"term_exit">> >>
    /\ UNCHANGED <<sigvars, cleanup_log, repvars, transcode_init_done, exit_code, cleanup_ret, cfgvars,
                   output_streams, input_files, input_streams, ost, ret, pi_ret,
                   gp_ret, err_rate_exceeded, ist, loop_exit>>

\* err_merge(err0, err1) of ffmpeg.h
err_merge(err0, err1) == IF err0 < 0 THEN err0 ELSE Min(err1, 0)

\* a trailer loop that stops at the first failure
trailers_left_until_error(i, r) == i < nb_output_files /\ r >= 0

\* transcode(): the test of the loop that writes the trailers
trailers_left(i, r) == i < nb_output_files

\* transcode(): one round of the loop that writes the trailers
WriteTrailer ==
    /\ pc = "trailer"
    /\ IF trailers_left(trailer_i, ret)
       THEN \E err \in LibErrors \cup {0} :
               /\ ret' = err_merge(ret, err)
               /\ trailer_i' = trailer_i + 1
               /\ calls' = Append(calls, <<"of_write_trailer", trailer_i, err>>)
               /\ UNCHANGED pc
       ELSE pc' = "final_report" /\ UNCHANGED <<ret, trailer_i, calls>>
    /\ UNCHANGED <<sigvars, cleanup_log, repvars, transcode_init_done, exit_code, cleanup_ret, cfgvars,
                   output_streams, input_files, input_streams, ost, pi_ret,
                   gp_ret, err_rate_exceeded, ist, loop_exit>>

\* transcode(): print_report(1, ...) and return ret
FinalReport ==
    /\ pc = "final_report"
    /\ pc' = "main"
    /\ calls' = Append(calls, <<"print_report", 1>>)
    /\ \E cur_time \in Times : print_report(1, cur_time)
    /\ UNCHANGED <<sigvars, cleanup_log, transcode_init_done, exit_code, cleanup_ret, cfgvars,
                   output_streams, input_files, input_streams, ost, ret, pi_ret,
                   gp_ret, err_rate_exceeded, ist, trailer_i, loop_exit>>

\* an exit value that ranks the error rate above the signals
main_ret_rate_first(r) ==
    IF err_rate_exceeded # 0 THEN 69
    ELSE IF received_nb_signals # 0 THEN 255
    ELSE r

\* main(): the value passed to exit_program
main_ret(r) ==
    IF received_nb_signals # 0 THEN 255
    ELSE IF err_rate_exceeded # 0 THEN 69
    ELSE r

\* main(): ret = received_nb_signals ? 255 : ...; exit_program(ret)
MainExit ==
    /\ pc = "main"
    /\ ret' = main_ret(ret)
    /\ exit_program(main_ret(ret))
    /\ UNCHANGED <<sigvars, cleanup_log, repvars, transcode_init_done, exit_code, cfgvars,
                   output_streams, input_files, input_streams, ost, pi_ret,
                   gp_ret, err_rate_exceeded, ist, trailer_i, calls, loop_exit>>

\* a cleanup that takes every non-zero ret for a failed conversion
ffmpeg_cleanup_log_any(v) ==
    IF received_sigterm # 0
    THEN << <<"Exiting normally, received signal", received_sigterm>> >>
    ELSE IF v # 0 THEN << <<"Conversion failed!">> >>
    ELSE <<>>

\* ffmpeg_cleanup(ret): the messages it logs after it released everything
ffmpeg_cleanup_log(v) ==
    IF received_sigterm # 0
    THEN << <<"Exiting normally, received signal", received_sigterm>> >>
    ELSE IF v # 0 /\ transcode_init_done # 0 THEN << <<"Conversion failed!">> >>
    ELSE <<>>

\* exit_program(ret): ffmpeg_cleanup(ret) has run, exit(ret)
Exit ==
    /\ pc = "cleanup"
    /\ pc' = "exited"
    /\ exit_code' = cleanup_ret
    /\ cleanup_log' = ffmpeg_cleanup_log(cleanup_ret[1])
    /\ UNCHANGED <<sigvars, repvars, transcode_init_done, cleanup_ret, cfgvars,
                   output_streams, input_files, input_streams, ost, ret, pi_ret,
                   gp_ret, err_rate_exceeded, ist, trailer_i, calls, loop_exit>>

\* ---------------------------------------------------------- specifications

InitCore(p, e) ==
    /\ received_sigterm = 0
    /\ received_nb_signals = 0
    /\ transcode_init_done = 0
    /\ exit_code = <<>>
    /\ cleanup_ret = <<>>
    /\ cleanup_log = <<>>
    /\ output_files = p.output_files
    /\ output_streams = p.output_streams
    /\ input_files = p.input_files
    /\ input_streams = p.input_streams
    /\ ost = NULL
    /\ ret = 0
    /\ pi_ret = <<>>
    /\ gp_ret = <<>>
    /\ err_rate_exceeded = 0
    /\ ist = NULL
    /\ trailer_i = 0
    /\ calls = <<>>
    /\ loop_exit = <<>>
    /\ env = e

\* the globals and the statics of the reporter when the program starts
InitReportState ==
    /\ nb_frames_dup = 0
    /\ nb_frames_drop = 0
    /\ copy_ts_first_pts = AV_NOPTS_VALUE
    /\ reports = <<>>
    /\ last_time = -1
    /\ first_report = 1

\* the reporter in a run with -nostats and without -progress
InitReporter ==
    /\ print_stats = FALSE
    /\ progress_avio = FALSE
    /\ stats_period = 1
    /\ nb_output_dumped = 0
    /\ InitReportState

InitState(p, e) == InitCore(p, e) /\ InitReporter

Env(errors, ready) ==
    [errors |-> errors, eof |-> errors, ready |-> ready, copy_ts |-> FALSE,
     start_at_zero |-> FALSE]

\* The whole program, signals included.
Init ==
    /\ pc = "parse"
    /\ \E sc \in Scenarios :
          /\ max_error_rate = sc.max_error_rate
          /\ stdin_interaction = sc.stdin
          /\ exit_on_error = sc.xerror
          /\ InitState(sc.p, [Env(TRUE, {}) EXCEPT !.copy_ts = sc.copy_ts])

MainThread ==
    \/ ParseOptions
    \/ TranscodeInit
    \/ LoopTest
    \/ Keyboard
    \/ Choose
    \/ Sleep
    \/ Step
    \/ Report
    \/ Flush
    \/ EncFlush
    \/ WriteTrailer
    \/ FinalReport
    \/ MainExit
    \/ Exit

Next == Signal \/ MainThread

Spec == Init /\ [][Next]_vars

\* ------------------------------------------- the output selector on its own
\* choose_output applied once to a table of output streams drawn from
\* SampleStreams; ret and ost hold what it returned and stored in *post.

\* timestamps of a stream: unknown, the first, the last a demuxer delivers,
\* and the largest of the 64-bit range
SampleTimestamps == {AV_NOPTS_VALUE, 0, MaxDts, INT64_MAX}

SampleStream(fin, init, done, unav, filter, last_pts, last_mux_dts) ==
    [OStream(NULL, filter, {}) EXCEPT
        !.finished = fin, !.initialized = init, !.inputs_done = done,
        !.unavailable = unav, !.last_pts = last_pts,
        !.last_mux_dts = last_mux_dts]

SampleStreams ==
    {SampleStream(fin, init, done, unav, FALSE, AV_NOPTS_VALUE, dts) :
        fin \in {0, ENCODER_FINISHED, ENCODER_FINISHED + MUXER_FINISHED},
        init \in {0, 1}, done \in {0, 1}, unav \in {0, 1},
        dts \in SampleTimestamps}
    \cup {SampleStream(fin, init, done, unav, TRUE, pts, 0) :
        fin \in {0, ENCODER_FINISHED, ENCODER_FINISHED + MUXER_FINISHED},
        init \in {0, 1}, done \in {0, 1}, unav \in {0, 1},
        pts \in SampleTimestamps}

\* the number of streams of each output file
SampleLayouts == {<<0>>, <<1>>, <<2>>, <<1, 0, 1>>}

SampleFiles(layout) == [k \in 1..Len(layout) |-> OFile(layout[k])]

InitChoose ==
    /\ pc = "select"
    /\ max_error_rate = <<2, 3>>
    /\ stdin_interaction = FALSE
    /\ exit_on_error = FALSE
    /\ \E layout \in SampleLayouts :
       \E streams \in [StreamIds(SampleFiles(layout)) -> SampleStreams] :
          InitState([output_files |-> SampleFiles(layout),
                     output_streams |-> streams,
                     input_files |-> <<>>, input_streams |-> <<>>],
                    Env(FALSE, {}))

select_store(r) ==
    /\ ret' = r.ret
    /\ ost' = r.post

\* ret = choose_output(&ost)
Select ==
    /\ pc = "select"
    /\ select_store(choose_output(output_streams, ost))
    /\ pc' = "selected"
    /\ UNCHANGED <<sigvars, cleanup_log, repvars, transcode_init_done, exit_code, cleanup_ret, cfgvars,
                   output_streams, input_files, input_streams, pi_ret, gp_ret,
                   err_rate_exceeded, ist, trailer_i, calls, loop_exit>>

SpecChoose == InitChoose /\ [][Select]_vars

\* the streams with no finished bit set
NonFinished == {o \in DOMAIN output_streams : output_streams[o].finished = 0}

\* the streams that qualify for first-pass priming
Primables ==
    {o \in NonFinished : output_streams[o].initialized = 0
                         /\ output_streams[o].inputs_done = 0}

\* the timestamp a stream is ranked by
Opts(o) ==
    IF output_streams[o].filter /\ output_streams[o].last_pts # AV_NOPTS_VALUE
    THEN output_streams[o].last_pts
    ELSE IF output_streams[o].last_mux_dts = AV_NOPTS_VALUE
         THEN INT64_MIN ELSE output_streams[o].last_mux_dts

\* C5: the stream choose_output stores in *post, whether it returns 0 or
\* retry-again, has no finished bit set.
C5_NeverFinished ==
    (pc = "selected" /\ ost # NULL) => output_streams[ost].finished = 0

\* a stream was stored although a finished stream has a smaller opts
C5_Witness ==
    /\ pc = "selected"
    /\ ost # NULL
    /\ \E o \in DOMAIN output_streams :
          output_streams[o].finished # 0 /\ Opts(o) < Opts(ost)

\* C6: when no stream qualifies for priming, choose_output selects the
\* non-finished stream with the smallest opts, and among equal smallest opts
\* the first in iteration order.
C6_SmallestOpts ==
    (pc = "selected" /\ Primables = {} /\ NonFinished # {}) =>
        /\ ost \in NonFinished
        /\ \A o \in NonFinished :
              /\ Opts(ost) <= Opts(o)
              /\ Opts(o) = Opts(ost) => ~Before(o, ost)

\* C7: when some stream has initialized, inputs_done and finished all zero,
\* choose_output selects the first such stream in iteration order, whatever
\* the opts of the other streams.
C7_Priming ==
    (pc = "selected" /\ Primables # {}) =>
        /\ ret # AVERROR_EOF
        /\ ost \in Primables
        /\ \A o \in Primables : ~Before(o, ost)

\* a primed stream was selected although an earlier non-finished stream has
\* a smaller opts
C7_Witness ==
    /\ pc = "selected"
    /\ ost \in Primables
    /\ \E o \in NonFinished : Before(o, ost) /\ Opts(o) < Opts(ost)

\* C8: choose_output returns AVERROR_EOF exactly when every output stream is
\* finished.
C8_EofIffAllFinished ==
    pc = "selected" => (ret = AVERROR_EOF <=> NonFinished = {})

\* the table of output streams with every unavailable flag cleared
AllAvailable ==
    [o \in DOMAIN output_streams |-> [output_streams[o] EXCEPT !.unavailable = 0]]

\* C9: choose_output returns 0 only with a stream whose unavailable flag is
\* clear, returns retry-again when the stream it chose has the flag set, and
\* chooses the same stream as it would with every flag clear.
C9_Unavailable ==
    pc = "selected" =>
        /\ ret = 0 => (ost # NULL /\ output_streams[ost].unavailable = 0)
        /\ (ost # NULL /\ output_streams[ost].unavailable # 0)
               => ret = AVERROR(EAGAIN)
        /\ ost = choose_output(AllAvailable, NULL).post

\* retry-again was returned although another non-finished stream is available
C9_Witness ==
    /\ pc = "selected"
    /\ ret = AVERROR(EAGAIN)
    /\ \E o \in NonFinished : o # ost /\ output_streams[o].unavailable = 0

\* --------------------------------------------- properties of the whole program

\* C1: decode_interrupt_cb is true exactly when received_nb_signals exceeds
\* transcode_init_done: before transcode() stores transcode_init_done = 1 one
\* signal makes it true, after the store only two signals do.
C1_InterruptPredicate ==
    /\ transcode_init_done \in {0, 1}
    /\ pc \in {"parse", "transcode"} => transcode_init_done = 0
    /\ pc \in {"loop", "keyboard", "choose", "step", "report", "flush",
               "enc_flush", "trailer", "final_report", "main"}
           => transcode_init_done = 1
    /\ transcode_init_done = 0 =>
           (decode_interrupt_cb <=> received_nb_signals >= 1)
    /\ transcode_init_done = 1 =>
           (decode_interrupt_cb <=> received_nb_signals >= 2)

\* one signal has arrived after the store and the predicate is false
C1_Witness ==
    /\ pc = "step"
    /\ transcode_init_done = 1
    /\ received_nb_signals = 1
    /\ ~decode_interrupt_cb

\* C2: the handler sets received_sigterm, which stays set, and once it is set
\* the loop test of transcode() starts no further iteration: from the test,
\* with or without the retry-again continue before it, control passes to
\* the flush phase (or the process is ended by a fourth signal).
C2_NoFurtherIteration ==
    [][/\ received_nb_signals' # received_nb_signals => received_sigterm' # 0
       /\ received_sigterm # 0 => received_sigterm' # 0
       /\ (received_sigterm # 0 /\ pc = "loop" /\ pc' # pc)
              => pc' \in {"flush", "exited"}
       /\ (received_sigterm # 0 /\ pc' \in {"keyboard", "choose"} /\ pc' # pc)
              => pc = "keyboard"]_vars

\* one signal ended the loop while an output stream was not finished and
\* nothing had failed
C2_Witness ==
    /\ pc = "flush"
    /\ received_nb_signals = 1
    /\ received_sigterm # 0
    /\ ~stdin_interaction
    /\ ret = 0
    /\ \E o \in DOMAIN output_streams : output_streams[o].finished = 0

\* C3: the first three invocations of the handler return to the program where
\* it was interrupted, the fourth ends the process with status 123 in any
\* phase, no step of the program runs after that, and the main thread never
\* sees received_nb_signals above 3.
C3_FourthSignalExits ==
    [][/\ pc # "exited"
       /\ received_nb_signals <= 3
       /\ pc' # "exited" => received_nb_signals' <= 3
       /\ (received_nb_signals' # received_nb_signals /\ received_nb_signals < 3)
              => /\ received_nb_signals' = received_nb_signals + 1
                 /\ pc' = pc
                 /\ exit_code' = exit_code
                 /\ cleanup_ret' = cleanup_ret
       /\ (received_nb_signals' # received_nb_signals /\ received_nb_signals = 3)
              => /\ received_nb_signals' = 4
                 /\ pc' = "exited"
                 /\ exit_code' = <<123>>
                 /\ trailer_i' = trailer_i
                 /\ cleanup_ret' = cleanup_ret]_vars

\* the fourth signal ended the process after the first of two trailers
C3_Witness ==
    /\ pc = "exited"
    /\ exit_code = <<123>>
    /\ received_nb_signals = 4
    /\ nb_output_files = 2
    /\ trailer_i = 1
    /\ cleanup_ret = <<>>

\* C4 as amended: after transcode() returns, main passes to exit_program 255
\* if a signal was received, else 69 if the error rate was exceeded, else
\* the value transcode() returned, unchanged; the process exits with it.
C4_ExitValue ==
    [][/\ (pc = "main" /\ pc' = "cleanup")
              => cleanup_ret' =
                     <<IF received_nb_signals # 0 THEN 255
                       ELSE IF err_rate_exceeded # 0 THEN 69
                       ELSE ret>>
       /\ (pc = "cleanup" /\ pc' = "exited"
               /\ received_nb_signals' = received_nb_signals)
              => exit_code' = cleanup_ret]_vars

\* C4: as C4_ExitValue, but a library error returned by transcode() is
\* clamped to 1.
C4_ExitValueClamped ==
    [][(pc = "main" /\ pc' = "cleanup")
           => cleanup_ret' =
                  <<IF received_nb_signals # 0 THEN 255
                    ELSE IF err_rate_exceeded # 0 THEN 69
                    ELSE IF ret = AVERROR(EIO) THEN 1
                    ELSE ret>>]_vars

\* the process has exited with the library error that transcode() returned
C4_Witness ==
    /\ pc = "exited"
    /\ transcode_init_done = 1
    /\ received_nb_signals = 0
    /\ err_rate_exceeded = 0
    /\ ret = AVERROR(EIO)
    /\ exit_code = <<AVERROR(EIO)>>

\* ffmpeg_cleanup(ret) has run and the process has exited with ret
CleanedUp == pc = "exited" /\ cleanup_ret # <<>> /\ exit_code = cleanup_ret

SignalMessage == << <<"Exiting normally, received signal", received_sigterm>> >>

FailedMessage == << <<"Conversion failed!">> >>

\* C23 (as stated): an exit through ffmpeg_cleanup with a non-zero code after
\* transcode_init_done was set logs exactly one of the two messages, the one
\* of the signal when a signal was received; an exit before
\* transcode_init_done is set logs neither.
C23_FatalExitMessage ==
    CleanedUp =>
       /\ (cleanup_ret[1] # 0 /\ transcode_init_done # 0) =>
              cleanup_log = IF received_nb_signals # 0
                            THEN SignalMessage ELSE FailedMessage
       /\ transcode_init_done = 0 => cleanup_log = <<>>

\* C23: an exit through ffmpeg_cleanup with a non-zero code after
\* transcode_init_done was set logs exactly one of the two messages, the one
\* of the signal when a signal was received; an exit before
\* transcode_init_done is set never logs "Conversion failed!", and logs the
\* message of the signal exactly when a signal was received.
C23_CleanupMessage ==
    CleanedUp =>
       /\ (cleanup_ret[1] # 0 /\ transcode_init_done # 0) =>
              cleanup_log = IF received_nb_signals # 0
                            THEN SignalMessage ELSE FailedMessage
       /\ transcode_init_done = 0 =>
              cleanup_log = IF received_nb_signals # 0
                            THEN SignalMessage ELSE <<>>

\* option parsing failed after a signal: exit 1 before transcode_init_done
\* was set, with the message of the signal
C23_Witness ==
    /\ CleanedUp
    /\ transcode_init_done = 0
    /\ exit_code = <<1>>
    /\ received_nb_signals = 1
    /\ cleanup_log = << <<"Exiting normally, received signal", SIGINT>> >>

\* ------------------------------------------------------ a run left to itself
\* No signal, no key and no error; the main thread always takes its next
\* step. The input files of env.ready have a packet ready at every read until
\* their end, the others may return retry-again at any read, for ever.

InitFair ==
    /\ pc = "parse"
    /\ max_error_rate = <<2, 3>>
    /\ stdin_interaction = FALSE
    /\ exit_on_error = FALSE
    /\ \E rt \in {1, INT64_MAX} :
       \E ready \in {{1}, {0, 1}} :
          InitState(CopyPipeline(rt), Env(FALSE, ready))

NextFair ==
    \/ ParseOptions
    \/ TranscodeInit
    \/ LoopTest
    \/ Choose
    \/ Sleep
    \/ Step
    \/ Report
    \/ Flush
    \/ EncFlush
    \/ WriteTrailer
    \/ FinalReport
    \/ MainExit
    \/ Exit

SpecFair == InitFair /\ [][NextFair]_vars /\ WF_vars(NextFair)

\* the output streams of CopyPipeline
FairStreams == {<<0, 0>>, <<1, 0>>}

\* o is not finished and its input file has a packet ready
PacketReady(o) ==
    /\ output_streams[o].finished = 0
    /\ output_streams[o].ist[1] \in env.ready
    /\ ~input_files[output_streams[o].ist[1] + 1].demux_eof
    /\ input_files[output_streams[o].ist[1] + 1].pos <= MaxDts

\* o was selected and a packet of its input file was processed
Advanced(o) == pc = "report" /\ ost = o /\ pi_ret = <<0>>

\* another stream is the one selected and the last read returned retry-again
RetryingOther(o) == ost # o /\ gp_ret = <<AVERROR(EAGAIN)>>

InitEof ==
    /\ pc = "parse"
    /\ max_error_rate = <<2, 3>>
    /\ stdin_interaction = FALSE
    /\ exit_on_error = FALSE
    /\ \E rt \in {1, INT64_MAX} :
       \E ready \in {{}, {1}, {0, 1}} :
          InitState(CopyPipeline(rt),
                    [Env(FALSE, ready) EXCEPT !.eof = TRUE])

\* the transcode step in which the demuxer of file k returns end of file
StepEof(k) ==
    /\ Step
    /\ ~input_files[k + 1].demux_eof
    /\ input_files'[k + 1].demux_eof

SpecEof ==
    /\ InitEof
    /\ [][NextFair]_vars
    /\ WF_vars(NextFair)
    /\ SF_vars(StepEof(0))
    /\ SF_vars(StepEof(1))

\* C11: with stream-copy outputs only and demuxers that eventually return
\* end of file, the main loop ends: every output stream is finished,
\* choose_output returns AVERROR_EOF and the loop is left with ret = 0.
C11_LoopTerminates ==
    <>(/\ pc = "flush"
       /\ ret = 0
       /\ \A o \in DOMAIN output_streams : output_streams[o].finished # 0
       /\ choose_output(output_streams, ost).ret = AVERROR_EOF)

\* the loop was left after both files reached their end, the first of them
\* before any of its packets was read
C11_Witness ==
    /\ pc = "flush"
    /\ ret = 0
    /\ \A o \in DOMAIN output_streams : output_streams[o].finished # 0
    /\ \A k \in 1..Len(input_files) : input_files[k].eof_reached = 1
    /\ input_files[1].pos = 0
    /\ env.ready = {1}

\* ------------------------------------------- the bookkeeping of the streams

HasBit(x, bit) == (x \div bit) % 2 = 1

\* C12: no step of the program clears a bit of the finished field of an
\* output stream; in particular ENCODER_FINISHED, once set, stays set.
C12_FinishedGrows ==
    [][\A o \in DOMAIN output_streams :
         \A bit \in {ENCODER_FINISHED, MUXER_FINISHED} :
            HasBit(output_streams[o].finished, bit)
                => HasBit(output_streams'[o].finished, bit)]_vars

\* a stream closed by the recording-time limit whose input stream was read
\* again, so that it was closed a second time
C12_Witness ==
    /\ pc = "report"
    /\ input_files[1].recording_time = 0
    /\ input_files[1].pos = 2
    /\ output_streams[<<0, 0>>].finished = ENCODER_FINISHED
    /\ output_streams[<<0, 0>>].nb_copied = 0

\* C13: when the end-of-file loop of process_input gives the muxer the final
\* signal for a stream with sq_idx_encode >= 0, the null-frame sentinel was
\* sent to the sync queue at that index before; a stream with
\* sq_idx_encode < 0 never has anything sent to a sync queue.
C13_SentinelBeforeEof ==
    \A o \in DOMAIN output_streams :
       /\ (output_streams[o].sq_idx_encode >= 0 /\ output_streams[o].mux_eof # <<>>)
              => output_streams[o].sq_idx_encode \in Range(output_streams[o].mux_eof[1])
       /\ output_streams[o].sq_idx_encode < 0 => output_streams[o].sq_sent = <<>>

\* the input ended: the encoded stream was closed with its sentinel, the
\* stream copies without one
C13_Witness ==
    /\ <<0, 1>> \in DOMAIN output_streams
    /\ input_files[1].eof_reached = 1
    /\ output_streams[<<0, 1>>].sq_idx_encode = 0
    /\ output_streams[<<0, 1>>].mux_eof = << <<0>> >>
    /\ output_streams[<<0, 0>>].sq_idx_encode < 0
    /\ output_streams[<<0, 0>>].mux_eof = << <<>> >>
    /\ output_streams[<<0, 0>>].finished = ENCODER_FINISHED + MUXER_FINISHED

\* ifile_get_packet returned 1 for the file k in this step
LoopRestart(k) == input_files'[k + 1].loops_left < input_files[k + 1].loops_left

\* C14: in the call of process_input in which ifile_get_packet returns 1,
\* every decoder of the file is sent null packets until it reports end of
\* stream (the frames it held come out) and is then flushed, no packet is
\* handed to an output stream, and the call returns retry-again.
C14_LoopFlush ==
    [][\A k \in 0..(nb_input_files - 1) :
         LoopRestart(k) =>
            /\ pi_ret' = <<AVERROR(EAGAIN)>>
            /\ \A i \in DOMAIN input_streams :
                  (i[1] = k /\ input_streams[i].decoding_needed) =>
                     /\ input_streams'[i].flushed = <<TRUE>>
                     /\ input_streams'[i].buffered = 0
                     /\ ~input_streams'[i].dec_eof
                     /\ input_streams'[i].frames_decoded =
                            Min(input_streams[i].frames_decoded
                                + input_streams[i].buffered, MaxBuffered)
            /\ \A o \in DOMAIN output_streams :
                  /\ output_streams'[o].nb_copied = output_streams[o].nb_copied
                  /\ output_streams'[o].finished = output_streams[o].finished
                  /\ output_streams'[o].last_mux_dts = output_streams[o].last_mux_dts
            /\ input_files'[k + 1].pos = input_files[k + 1].pos]_vars

\* the input was looped while its decoder held a frame
C14_Witness ==
    /\ pc = "report"
    /\ gp_ret = <<1>>
    /\ pi_ret = <<AVERROR(EAGAIN)>>
    /\ input_files[1].loops_left = 0
    /\ input_streams[<<0, 0>>].flushed = <<TRUE>>
    /\ input_streams[<<0, 0>>].frames_decoded = 1
    /\ input_streams[<<0, 0>>].buffered = 0
    /\ input_files[1].pos = 1

\* ------------------------------------------------- the end of the main loop

\* the main loop of transcode() was left
AfterLoop == pc \in {"flush", "enc_flush", "trailer", "final_report", "main"}

AllInputsAtEof ==
    \A i \in DOMAIN input_streams : input_files[i[1] + 1].eof_reached # 0

\* C15 (as stated): once the main loop was left, a signal was received or
\* every input stream belongs to a file whose eof_reached is set.
C15_SignalOrAllEof ==
    AfterLoop => (received_nb_signals # 0 \/ AllInputsAtEof)

\* C15: the main loop is left in one of four ways only: a signal was
\* received, check_keyboard_interaction returned a negative value,
\* choose_output returned a negative value other than retry-again (ret is
\* then 0), or transcode_step returned an error other than end of file (ret
\* is then that error).
C15_LoopExitCauses ==
    [][(~AfterLoop /\ AfterLoop') =>
          \/ pc = "loop" /\ received_sigterm # 0
          \/ pc = "keyboard" /\ stdin_interaction
          \/ /\ pc = "choose"
             /\ choose_output(output_streams, ost).ret < 0
             /\ choose_output(output_streams, ost).ret # AVERROR(EAGAIN)
             /\ ret' = 0
          \/ pc = "step" /\ ret' < 0 /\ ret' # AVERROR_EOF]_vars

\* the selector reported end of file after the recording-time limit closed
\* the first output: the loop was left, no signal, the first input not at EOF
C15_Witness ==
    /\ pc = "flush"
    /\ received_nb_signals = 0
    /\ ret = 0
    /\ ~stdin_interaction
    /\ \A o \in DOMAIN output_streams : output_streams[o].finished # 0
    /\ input_files[1].eof_reached = 0
    /\ input_files[1].recording_time # INT64_MAX

\* the null-packet flushes due after the loop, from the input stream i on
RECURSIVE FlushCalls(_)
FlushCalls(i) ==
    IF i = NULL THEN <<>>
    ELSE (IF input_files[i[1] + 1].eof_reached = 0
          THEN << <<"process_input_packet", i>> >> ELSE <<>>)
         \o FlushCalls(ist_iter(i))

TrailerCalls == [k \in 1..nb_output_files |-> <<"of_write_trailer", k - 1>>]

\* the calls made so far, without what they returned
Called ==
    [k \in DOMAIN calls |->
        IF Len(calls[k]) > 2 THEN SubSeq(calls[k], 1, 2) ELSE calls[k]]

\* what transcode() has to call between its main loop and its return
EpilogueCalls ==
    FlushCalls(ist_iter(NULL)) \o << <<"enc_flush">>, <<"term_exit">> >>
    \o TrailerCalls \o << <<"print_report", 1>> >>

\* C16: after the main loop was left, transcode() sends a null packet to
\* every input stream whose file has not reached end of file, then calls
\* enc_flush once, restores the terminal, writes the trailer of every output
\* file once, in index order, whether or not an earlier trailer failed, and
\* prints one final report: what it has called so far is a prefix of that
\* list, and the whole list once it returns.
C16_Epilogue ==
    /\ AfterLoop => /\ Len(calls) <= Len(EpilogueCalls)
                    /\ Called = SubSeq(EpilogueCalls, 1, Len(calls))
    /\ pc = "main" => Called = EpilogueCalls
    /\ ~(AfterLoop \/ pc \in {"cleanup", "exited"}) => calls = <<>>

\* transcode() returned: an input stream not at end of file was flushed, the
\* first trailer failed and the second was written all the same
C16_Witness ==
    /\ pc = "main"
    /\ nb_output_files = 2
    /\ Len(calls) = 7
    /\ calls[1] = <<"process_input_packet", <<0, 0>> >>
    /\ calls[5] = <<"of_write_trailer", 0, AVERROR(EIO)>>
    /\ calls[6] = <<"of_write_trailer", 1, 0>>

\* the results of the trailers written so far, in the order of the calls
TrailerErrs ==
    [k \in 1..Len(SelectSeq(calls, LAMBDA c : c[1] = "of_write_trailer")) |->
        SelectSeq(calls, LAMBDA c : c[1] = "of_write_trailer")[k][3]]

\* the error of the lowest-indexed output file whose trailer failed, else 0
FirstTrailerError ==
    IF \E k \in DOMAIN TrailerErrs : TrailerErrs[k] < 0
    THEN TrailerErrs[CHOOSE k \in DOMAIN TrailerErrs :
                        /\ TrailerErrs[k] < 0
                        /\ \A j \in 1..(k - 1) : TrailerErrs[j] >= 0]
    ELSE 0

\* C17 (as stated): transcode() returns the error that ended the main loop,
\* whatever the trailers return; when the loop ended without an error, the
\* error of the lowest-indexed output file whose trailer failed; and 0 when
\* the loop ended without an error and every trailer was written.
C17_FirstFailureWins ==
    (pc = "main" /\ loop_exit # <<>>) =>
        ret = IF loop_exit[1].cause = "error"
              THEN loop_exit[1].ret
              ELSE FirstTrailerError

\* ----------------------------------------------------------- retry-again

\* no input file has eagain set and no output stream has unavailable set
FlagsClear(ifs, os) ==
    /\ \A k \in DOMAIN ifs : ifs[k].eagain = 0
    /\ \A o \in DOMAIN os : os[o].unavailable = 0

\* the main thread takes this step
MainStep == pc' # pc /\ received_nb_signals' = received_nb_signals

\* C24: when choose_output returns retry-again in the main loop, the loop
\* clears every eagain and every unavailable flag and sleeps, and from the
\* sleep it goes back to the loop test: no transcode step was executed and
\* nothing was reported; with the flags cleared choose_output does not
\* return retry-again.
C24_RetryAgain ==
    [][/\ (pc = "choose" /\ MainStep
             /\ choose_output(output_streams, ost).ret = AVERROR(EAGAIN)) =>
             /\ pc' = "sleep"
             /\ FlagsClear(input_files', output_streams')
             /\ input_streams' = input_streams
             /\ pi_ret' = pi_ret
             /\ reports' = reports
             /\ choose_output(output_streams', ost').ret # AVERROR(EAGAIN)
       /\ (pc = "sleep" /\ MainStep) =>
             /\ pc' = "loop"
             /\ output_streams' = output_streams
             /\ input_streams' = input_streams
             /\ input_files' = input_files
             /\ pi_ret' = pi_ret
             /\ reports' = reports]_vars

\* the loop sleeps: the stream selected had been marked unavailable after a
\* read that returned retry-again, and the flags are clear again
C24_Witness ==
    /\ pc = "sleep"
    /\ ret = AVERROR(EAGAIN)
    /\ gp_ret = <<AVERROR(EAGAIN)>>
    /\ ost # NULL
    /\ output_streams[ost].finished = 0
    /\ FlagsClear(input_files, output_streams)

\* C25: transcode_step sets unavailable on the stream it was given exactly
\* when process_input returned retry-again and the eagain flag of the file
\* it read is set; after every retry-again, also one that comes from a
\* looped input or from the end of the file, it returns 0 and does not call
\* reap_filters; and when the filter graph names no input stream it returns
\* 0 without calling process_input and changes nothing. Checked for every
\* outcome of the collaborators in every state in which transcode_step is
\* about to run.
C25_TranscodeStep ==
    pc = "step" =>
       \A fg \in FgOutcomes(World, ost) :
       \A gp \in StepPacketOutcomes(World, ost, fg) :
       \A d \in StepDecOutcomes(World, ost, fg, gp) :
       \A r \in {transcode_step_input(World, ost, fg, gp, d)} :
          /\ output_streams[ost].unavailable = 0
          /\ (output_streams[ost].filter /\ fg.ret >= 0 /\ fg.ist = NULL) =>
                 (r.pi = <<>> /\ r.ret = 0 /\ ~r.reap /\ ~r.exit /\ r.W = World)
          /\ r.pi = <<AVERROR(EAGAIN)>> => (r.ret = 0 /\ ~r.reap /\ ~r.exit)
          /\ r.W.os[ost].unavailable # 0 <=>
                 /\ r.pi = <<AVERROR(EAGAIN)>>
                 /\ r.W.ifs[step_ist(World, ost, fg)[1] + 1].eagain # 0
          /\ \A o \in DOMAIN output_streams :
                 o # ost => r.W.os[o].unavailable = 0
                            \/ r.W.os[o].unavailable = output_streams[o].unavailable

\* the file read was at its end: process_input returned retry-again with the
\* eagain flag clear, the step returned 0 and left the stream available
C25_Witness ==
    /\ pc = "report"
    /\ gp_ret = <<AVERROR_EOF>>
    /\ pi_ret = <<AVERROR(EAGAIN)>>
    /\ ret = 0
    /\ ost # NULL
    /\ output_streams[ost].unavailable = 0
    /\ output_streams[ost].enc
    /\ output_streams[ost].finished = 0
    /\ FlagsClear(input_files, output_streams)

\* the streams of the input file k
FileStreams(k) == {i \in DOMAIN input_streams : i[1] = k}

\* a decoder of the file k still holds a frame, so that its flush does not
\* report the end of the stream
FlushPending(k) ==
    \E i \in FileStreams(k) :
        /\ ~input_streams[i].discard
        /\ input_streams[i].decoding_needed
        /\ input_streams[i].buffered > 0

\* in W every stream of the file k was flushed to the end of the stream and
\* every output stream it feeds was closed and given the final muxer signal
FlushedAndClosed(W, k) ==
    \A i \in FileStreams(k) :
        /\ (~W.is[i].discard /\ W.is[i].decoding_needed) =>
               (W.is[i].dec_eof /\ W.is[i].buffered = 0)
        /\ \A o \in Range(W.is[i].outputs) :
               /\ HasBit(W.os[o].finished, ENCODER_FINISHED)
               /\ HasBit(W.os[o].finished, MUXER_FINISHED)
               /\ W.os[o].mux_eof # <<>>

Limit(f) ==
    IF env.copy_ts
    THEN f.recording_time
         + (IF f.start_time # AV_NOPTS_VALUE THEN f.start_time ELSE 0)
         + (IF env.start_at_zero THEN 0 ELSE f.start_time_effective)
    ELSE f.recording_time

\* the packets a demuxer may deliver for the input stream i
Packets(i) == {[stream_index |-> i[2], dts_est |-> t] : t \in 0..MaxDts}

\* the output streams after process_input_packet(i, pkt, 0) in this state
AfterPacket(i, pkt, d) == process_input_packet(World, i, pkt, 0, d).W.os

\* C18: for an input file with a recording-time limit, a packet with
\* dts_est >= recording_time + start_time closes every stream-copy output of
\* its input stream and is handed to none of them; a packet below the limit
\* is handed to every stream-copy output and closes none; an output with an
\* encoder is neither closed nor handed the packet. Checked for every
\* packet and decoder outcome in every state in which transcode_step is
\* about to run.
C18_RecordingTime ==
    \A i \in DOMAIN input_streams :
       (pc = "step" /\ input_files[i[1] + 1].recording_time # INT64_MAX) =>
          \A pkt \in Packets(i) :
          \A d \in DecOutcomes(World, i[1], [ret |-> 0, pkt |-> pkt]) :
          \A os \in {AfterPacket(i, pkt, d)} :
          \A o \in Range(input_streams[i].outputs) :
             IF output_streams[o].enc
             THEN os[o] = output_streams[o]
             ELSE IF pkt.dts_est >= Limit(input_files[i[1] + 1])
             THEN /\ HasBit(os[o].finished, ENCODER_FINISHED)
                  /\ os[o].nb_copied = output_streams[o].nb_copied
                  /\ os[o].last_mux_dts = output_streams[o].last_mux_dts
             ELSE /\ os[o].nb_copied = output_streams[o].nb_copied + 1
                  /\ os[o].finished = output_streams[o].finished

\* a limit of 1 without -copyts: the first packet was handed to the two
\* stream copies, the second closed them, the encoded stream saw neither
C18_Witness ==
    /\ <<0, 1>> \in DOMAIN output_streams
    /\ input_files[1].recording_time = 1
    /\ input_files[1].pos = 2
    /\ pc = "report"
    /\ output_streams[<<0, 1>>].enc
    /\ output_streams[<<0, 1>>].finished = 0
    /\ output_streams[<<0, 1>>].nb_copied = 0
    /\ ~env.copy_ts
    /\ output_streams[<<0, 0>>].finished = ENCODER_FINISHED
    /\ output_streams[<<0, 0>>].nb_copied = 1
    /\ output_streams[<<1, 0>>].finished = ENCODER_FINISHED
    /\ output_streams[<<1, 0>>].nb_copied = 1

\* --------------------------------------------------- the decode error rate

\* the flush loop of transcode() is over
AfterFlush == pc \in {"enc_flush", "trailer", "final_report", "main"}

\* decode_errors / (frames_decoded + decode_errors), as a fraction, is above
\* max_error_rate; the rate is 0 when nothing was decoded and nothing failed
TrueRateExceeds(s) ==
    s.decode_errors * max_error_rate[2]
        > max_error_rate[1] * (s.frames_decoded + s.decode_errors)

\* C19 (as stated): after the flush loop err_rate_exceeded is set exactly
\* when some input stream has a decode error rate, taken as the true
\* fraction decode_errors / (frames_decoded + decode_errors), above
\* max_error_rate.
C19_TrueErrorRate ==
    AfterFlush =>
        (err_rate_exceeded = 1
            <=> \E i \in DOMAIN input_streams : TrueRateExceeds(input_streams[i]))

\* -------------------------------------------------- the reporter on its own
\* print_report called up to MaxReports times, with is_last_report 0 or 1,
\* on a table of two output streams that does not change between the calls.

MaxReports == 3

\* an output stream as the reporter sees it
ReportStream(video, last_mux_dts, last_dropped) ==
    [OStream(NULL, FALSE, {}) EXCEPT !.video = video,
                                     !.last_mux_dts = last_mux_dts,
                                     !.packets_written = 1,
                                     !.last_dropped = last_dropped]

ReportStreams ==
    {ReportStream(v, t, d) :
        v \in BOOLEAN, t \in {AV_NOPTS_VALUE, 0, 1, INT64_MAX}, d \in {0, 1}}

InitPrintReport ==
    /\ pc = "print_report"
    /\ max_error_rate = <<2, 3>>
    /\ stdin_interaction = FALSE
    /\ exit_on_error = FALSE
    /\ print_stats = TRUE
    /\ stats_period = 1
    /\ nb_output_dumped = 1
    /\ progress_avio \in BOOLEAN
    /\ InitReportState
    /\ \E size \in {-1, 1} : \E copy_ts \in BOOLEAN :
       \E streams \in [{<<0, 0>>, <<0, 1>>} -> ReportStreams] :
          InitCore([output_files |-> <<[OFile(2) EXCEPT !.filesize = size]>>,
                    output_streams |-> streams,
                    input_files |-> <<>>, input_streams |-> <<>>],
                   [Env(FALSE, {}) EXCEPT !.copy_ts = copy_ts])

\* print_report(is_last_report, timer_start, cur_time)
PrintReport ==
    /\ pc = "print_report"
    /\ Len(reports) < MaxReports
    /\ \E is_last_report \in {0, 1} : \E cur_time \in Times :
          print_report(is_last_report, cur_time)
    /\ UNCHANGED <<sigvars, cleanup_log, transcode_init_done, pc, exit_code, cleanup_ret,
                   cfgvars, output_streams, input_files, input_streams, ost,
                   ret, pi_ret, gp_ret, err_rate_exceeded, ist, trailer_i,
                   calls, loop_exit>>

SpecPrintReport == InitPrintReport /\ [][PrintReport]_vars

\* ------------------------------------------------ the reporter along a run
\* The main loop as the reporter sees it, with -stats or -nostats and with
\* or without -progress: in a round the muxers may write a packet, and they
\* dump the output files they have opened at any time.

InitProgress ==
    /\ pc = "parse"
    /\ max_error_rate = <<2, 3>>
    /\ stdin_interaction = FALSE
    /\ exit_on_error = FALSE
    /\ print_stats \in BOOLEAN
    /\ progress_avio \in BOOLEAN
    /\ stats_period \in {1, 2}
    /\ nb_output_dumped = 0
    /\ InitReportState
    /\ \E copy_ts \in BOOLEAN :
          InitCore(CopyPipeline(INT64_MAX),
                   [Env(FALSE, {}) EXCEPT !.copy_ts = copy_ts])

\* collaborator (muxer): a packet with dts t was written to the stream o
mux_packet(o, t) == [output_streams EXCEPT ![o].last_mux_dts = t]

\* transcode(): one round of the main loop up to print_report, the muxer
\* having written no packet or a packet of a later dts to one stream
Round ==
    /\ pc = "loop"
    /\ pc' = "report"
    /\ \E o \in DOMAIN output_streams :
       \E t \in {output_streams[o].last_mux_dts} \cup 0..INT64_MAX :
          /\ t >= output_streams[o].last_mux_dts
          /\ output_streams' = mux_packet(o, t)
    /\ UNCHANGED <<sigvars, cleanup_log, repvars, transcode_init_done, exit_code, cleanup_ret,
                   cfgvars, input_files, input_streams, ost, ret, pi_ret,
                   gp_ret, err_rate_exceeded, ist, trailer_i, calls, loop_exit>>

\* transcode(): the main loop is left and the phases up to the last
\* print_report are over
LeaveLoop ==
    /\ pc = "loop"
    /\ pc' = "final_report"
    /\ UNCHANGED <<sigvars, cleanup_log, repvars, transcode_init_done, exit_code, cleanup_ret,
                   cfgvars, output_streams, input_files, input_streams, ost,
                   ret, pi_ret, gp_ret, err_rate_exceeded, ist, trailer_i,
                   calls, loop_exit>>

\* collaborator (muxer): an output file was opened and dumped
Dump ==
    /\ pc \in {"transcode", "loop", "report"}
    /\ nb_output_dumped < nb_output_files
    /\ nb_output_dumped' = nb_output_dumped + 1
    /\ UNCHANGED <<sigvars, cleanup_log, nb_frames_dup, nb_frames_drop, copy_ts_first_pts,
                   progress_avio, reports, last_time, first_report,
                   transcode_init_done, pc, exit_code, cleanup_ret,
                   cfgvars, output_streams, input_files, input_streams, ost,
                   ret, pi_ret, gp_ret, err_rate_exceeded, ist, trailer_i,
                   calls, loop_exit>>

NextProgress ==
    \/ ParseOptions
    \/ TranscodeInit
    \/ Round
    \/ Dump
    \/ Report
    \/ LeaveLoop
    \/ FinalReport
    \/ MainExit
    \/ Exit

SpecProgress == InitProgress /\ [][NextProgress]_vars

\* this step appended a record to reports
Emitted == Len(reports') = Len(reports) + 1

\* C21: a report that is not the last one is emitted (logged or written to
\* the progress output) only if it is the first emission and every output
\* file has been dumped, or it is not the first and at least stats_period
\* microseconds have passed since the emission before it; the last report is
\* always emitted, with -nostats and without a progress output as well.
C21_ReportGate ==
    [][/\ (Emitted /\ reports'[Len(reports')].is_last_report = 0) =>
             /\ pc = "report"
             /\ reports'[Len(reports')].logged \/ reports'[Len(reports')].written
             /\ IF reports = <<>>
                THEN nb_output_dumped >= nb_output_files
                ELSE /\ reports[Len(reports)].is_last_report = 0
                     /\ reports'[Len(reports')].at[1] - reports[Len(reports)].at[1]
                            >= stats_period
       /\ (pc = "final_report" /\ pc' # pc) =>
             /\ Emitted
             /\ reports'[Len(reports')].is_last_report = 1
             /\ reports'[Len(reports')].logged]_vars

\* with -nostats and a progress output: a first report once both files were
\* dumped, a second one a period of 2 later, and the last report
C21_Witness ==
    /\ pc = "main"
    /\ ~print_stats
    /\ stats_period = 2
    /\ Len(reports) = 3
    /\ reports[1].at = <<0>>
    /\ reports[1].written
    /\ reports[2].at = <<2>>
    /\ reports[3].is_last_report = 1
    /\ reports[3].script.progress = <<"end">>

\* C22: once copy_ts_first_pts holds a value other than AV_NOPTS_VALUE, no
\* step of the run, and so no later report, changes it.
C22_FirstPtsOnce ==
    [][copy_ts_first_pts # AV_NOPTS_VALUE
           => copy_ts_first_pts' = copy_ts_first_pts]_vars

\* copy_ts_first_pts was set to 2 by the first report; the second one saw a
\* larger timestamp and reported it less 2
C22_Witness ==
    /\ env.copy_ts
    /\ copy_ts_first_pts = 2
    /\ Len(reports) = 2
    /\ reports[1].script.out_time_us = <<0>>
    /\ reports[2].script.out_time_us = <<INT64_MAX - 2>>
    /\ INT64_MAX > 2

\* the calls k, k + 1 of print_report that were both final reports
FinalPairs ==
    {k \in 1..(Len(reports) - 1) :
        reports[k].is_last_report = 1 /\ reports[k + 1].is_last_report = 1}

\* the frames the final report adds to nb_frames_drop
LastDropped ==
    output_streams[<<0, 0>>].last_dropped + output_streams[<<0, 1>>].last_dropped

\* C20 (as stated): two successive final reports over the same stream state
\* put the same frame, total_size, out_time, dup_frames and drop_frames in
\* their records.
C20_FinalReportIdempotent ==
    \A k \in FinalPairs :
       /\ reports[k + 1].script.frame = reports[k].script.frame
       /\ reports[k + 1].script.total_size = reports[k].script.total_size
       /\ reports[k + 1].script.out_time = reports[k].script.out_time
       /\ reports[k + 1].script.out_time_us = reports[k].script.out_time_us
       /\ reports[k + 1].script.dup_frames = reports[k].script.dup_frames
       /\ reports[k + 1].script.drop_frames = reports[k].script.drop_frames

\* C20: two successive final reports over the same stream state compute the
\* same frame, total_size, bitrate, out_time and dup_frames; drop_frames of
\* the second is that of the first plus the last_dropped of every output
\* stream; and the second is not written to the progress output, which the
\* first has closed.
C20_FinalReportTwice ==
    \A k \in FinalPairs :
       /\ reports[k + 1].script.frame = reports[k].script.frame
       /\ reports[k + 1].script.total_size = reports[k].script.total_size
       /\ reports[k + 1].script.bitrate = reports[k].script.bitrate
       /\ reports[k + 1].script.out_time = reports[k].script.out_time
       /\ reports[k + 1].script.out_time_us = reports[k].script.out_time_us
       /\ reports[k + 1].script.out_time_ms = reports[k].script.out_time_ms
       /\ reports[k + 1].script.dup_frames = reports[k].script.dup_frames
       /\ reports[k + 1].script.drop_frames
              = reports[k].script.drop_frames + LastDropped
       /\ ~reports[k + 1].written
       /\ reports[k + 1].script.progress = <<>>

\* two final reports with -copyts, the first of which set copy_ts_first_pts
\* and wrote its record, over streams with a dropped last frame
C20_Witness ==
    /\ pc = "print_report"
    /\ Len(reports) = 2
    /\ FinalPairs = {1}
    /\ LastDropped = 2
    /\ env.copy_ts
    /\ copy_ts_first_pts = INT64_MAX
    /\ reports[1].written
    /\ reports[1].script.progress = <<"end">>
    /\ reports[1].script.frame = <<1>>
    /\ reports[2].script.drop_frames = 4

\* ------------------------------------------------- a muxer on its own thread
\* As SpecFair without fairness, any input returning retry-again at any
\* read, with the muxer of a stream-copied output running on a thread of its
\* own: it writes a packet it was handed earlier at a moment of its choice
\* and moves last_mux_dts of the stream, so that the stream the selector
\* picks can change between a step that returned retry-again and the next
\* selection.

InitMux ==
    /\ pc = "parse"
    /\ max_error_rate = <<2, 3>>
    /\ stdin_interaction = FALSE
    /\ exit_on_error = FALSE
    /\ \E ready \in {{}, {1}} :
          InitState(CopyPipeline(INT64_MAX), Env(FALSE, ready))

\* collaborator (muxer thread): a packet handed to the muxer of o is written
\* with a dts later than the last one
MuxerThread ==
    /\ pc \in {"loop", "choose", "sleep", "step", "report"}
    /\ \E o \in DOMAIN output_streams :
       \E t \in 0..(MaxDts + 1) :
          /\ ~output_streams[o].enc
          /\ output_streams[o].finished = 0
          /\ output_streams[o].nb_copied > 0
          /\ t > output_streams[o].last_mux_dts
          /\ output_streams' = mux_packet(o, t)
    /\ UNCHANGED <<sigvars, cleanup_log, repvars, transcode_init_done, pc,
                   exit_code, cleanup_ret, cfgvars, input_files,
                   input_streams, ost, ret, pi_ret, gp_ret, err_rate_exceeded,
                   ist, trailer_i, calls, loop_exit>>

NextMux == NextFair \/ MuxerThread

SpecMux == InitMux /\ [][NextMux]_vars

\* C27: whenever process_input obtains a packet from the demuxer, the
\* eagain flag of every input file and the unavailable flag of every output
\* stream are clear once the packet was dispatched, whatever they were
\* before; and right after a transcode step that processed a packet no
\* eagain and no unavailable flag is set.
C27_FlagsReset ==
    /\ pc = "step" =>
          \A fg \in FgOutcomes(World, ost) :
          \A gp \in StepPacketOutcomes(World, ost, fg) :
          \A d \in StepDecOutcomes(World, ost, fg, gp) :
             (step_ist(World, ost, fg) # NULL /\ gp.ret = 0) =>
                \A r \in {process_input(World, step_ist(World, ost, fg)[1], gp, d)} :
                   r.ret = 0 /\ FlagsClear(r.W.ifs, r.W.os)
    /\ (pc = "report" /\ pi_ret = <<0>> /\ gp_ret = <<0>>) =>
          FlagsClear(input_files, output_streams)

\* the muxer moved the first stream ahead of the second while the first was
\* waiting for its input, the second stream was selected and a packet of
\* its file was processed: no flag is set
C27_Witness ==
    /\ pc = "report"
    /\ ost = <<1, 0>>
    /\ pi_ret = <<0>>
    /\ gp_ret = <<0>>
    /\ output_streams[<<0, 0>>].finished = 0
    /\ output_streams[<<0, 0>>].last_mux_dts > input_files[1].pos - 1
    /\ input_files[1].pos > 0
    /\ FlagsClear(input_files, output_streams)

\* ----------------------------------------------------- the reported time

\* the output streams whose last_mux_dts is known
KnownDts ==
    {output_streams[o].last_mux_dts : o \in DOMAIN output_streams}
        \ {AV_NOPTS_VALUE}

MaxDtsKnown == CHOOSE t \in KnownDts : \A u \in KnownDts : u <= t

\* the pts of the last report, as written to the progress output
ReportedPts == reports[Len(reports)].script.out_time_us

\* C28: the pts a report gives is the largest known last_mux_dts of the
\* output streams and, under copy-ts, that maximum minus copy_ts_first_pts,
\* subtracted once, whatever the number of output streams.
C28_ReportedPts ==
    (pc = "print_report" /\ reports # <<>> /\ KnownDts # {}) =>
        ReportedPts =
            <<IF env.copy_ts /\ copy_ts_first_pts # AV_NOPTS_VALUE
              THEN MaxDtsKnown - copy_ts_first_pts
              ELSE MaxDtsKnown>>

\* ------------------------------------------------- the iterators on their own
\* The loop for (ost = ost_iter(NULL); ost; ost = ost_iter(ost)) over the
\* output streams, then the same loop with ist_iter over the input streams,
\* on files whose numbers of streams are drawn from IterLayouts; calls
\* keeps what the iterators returned, in order.

\* the numbers of streams of up to three files, files without streams included
IterLayouts ==
    UNION {[1..n -> 0..MaxStreams] : n \in 1..3}

InitIter ==
    /\ pc = "ost_iter"
    /\ max_error_rate = <<2, 3>>
    /\ stdin_interaction = FALSE
    /\ exit_on_error = FALSE
    /\ \E lo \in IterLayouts : \E li \in IterLayouts :
          InitState([output_files |-> [k \in 1..Len(lo) |-> OFile(lo[k])],
                     output_streams |->
                         [o \in StreamIds([k \in 1..Len(lo) |-> OFile(lo[k])])
                             |-> OStream(NULL, FALSE, {})],
                     input_files |->
                         [k \in 1..Len(li) |-> IFile(li[k], INT64_MAX, 0)],
                     input_streams |->
                         [i \in StreamIds([k \in 1..Len(li) |->
                                               IFile(li[k], INT64_MAX, 0)])
                             |-> IStream(FALSE, <<>>)]],
                    Env(FALSE, {}))

\* ost = ost_iter(ost), until it returns NULL
IterOst ==
    /\ pc = "ost_iter"
    /\ ost' = ost_iter(ost)
    /\ calls' = Append(calls, <<"ost_iter", ost_iter(ost)>>)
    /\ pc' = IF ost_iter(ost) = NULL THEN "ist_iter" ELSE "ost_iter"
    /\ UNCHANGED <<sigvars, cleanup_log, repvars, transcode_init_done,
                   exit_code, cleanup_ret, cfgvars, output_streams,
                   input_files, input_streams, ret, pi_ret, gp_ret,
                   err_rate_exceeded, ist, trailer_i, loop_exit>>

\* ist = ist_iter(ist), until it returns NULL
IterIst ==
    /\ pc = "ist_iter"
    /\ ist' = ist_iter(ist)
    /\ calls' = Append(calls, <<"ist_iter", ist_iter(ist)>>)
    /\ pc' = IF ist_iter(ist) = NULL THEN "iterated" ELSE "ist_iter"
    /\ UNCHANGED <<sigvars, cleanup_log, repvars, transcode_init_done,
                   exit_code, cleanup_ret, cfgvars, output_streams,
                   input_files, input_streams, ost, ret, pi_ret, gp_ret,
                   err_rate_exceeded, trailer_i, loop_exit>>

NextIter == IterOst \/ IterIst

SpecIter == InitIter /\ [][NextIter]_vars

\* what the iterator fn returned so far, in order
Returned(fn) ==
    [k \in 1..Cardinality({j \in 1..Len(calls) : calls[j][1] = fn}) |->
        calls[CHOOSE j \in 1..Len(calls) :
                 /\ calls[j][1] = fn
                 /\ Cardinality({h \in 1..j : calls[h][1] = fn}) = k][2]]

\* the stream that follows prev (NULL: before the first) among the streams
\* of files, in the order of file index, then stream index; NULL if none
Successor(files, prev) ==
    IF \E id \in StreamIds(files) : prev = NULL \/ Before(prev, id)
    THEN CHOOSE id \in StreamIds(files) :
             /\ prev = NULL \/ Before(prev, id)
             /\ \A other \in StreamIds(files) :
                    (prev = NULL \/ Before(prev, other)) =>
                       (other = id \/ Before(id, other))
    ELSE NULL

\* the returns v of a loop over the streams of files: strictly increasing,
\* NULL only as the last one, and every stream visited once the loop ended
Traversal(v, files) ==
    /\ \A k \in 1..Len(v) :
          /\ v[k] = NULL => k = Len(v)
          /\ v[k] # NULL => v[k] \in StreamIds(files)
          /\ \A j \in 1..(k - 1) : v[k] # NULL => Before(v[j], v[k])
    /\ (v # <<>> /\ v[Len(v)] = NULL) =>
          /\ {v[k] : k \in 1..(Len(v) - 1)} = StreamIds(files)
          /\ Len(v) = Cardinality(StreamIds(files)) + 1

\* C29: starting from NULL and applying ost_iter (ist_iter) again and again
\* visits every output (input) stream of every file exactly once, in the
\* order of file index, then stream index, skips the files that have no
\* stream and returns NULL after the last stream; from any stream the
\* iterator returns the successor of the stream in this order.
C29_Traversal ==
    /\ Traversal(Returned("ost_iter"), output_files)
    /\ Traversal(Returned("ist_iter"), input_files)
    /\ \A prev \in StreamIds(output_files) \cup {NULL} :
          ost_iter(prev) = Successor(output_files, prev)
    /\ \A prev \in StreamIds(input_files) \cup {NULL} :
          ist_iter(prev) = Successor(input_files, prev)

\* both loops ended on files the second of which has no stream: the two
\* streams of the output files and the three of the input files were visited
C29_Witness ==
    /\ pc = "iterated"
    /\ Len(output_files) = 3 /\ Len(input_files) = 3
    /\ output_files[2].nb_streams = 0 /\ input_files[2].nb_streams = 0
    /\ Returned("ost_iter") = << <<0, 0>>, <<2, 0>>, NULL >>
    /\ Returned("ist_iter") = << <<0, 0>>, <<0, 1>>, <<2, 0>>, NULL >>

\* ------------------------------------------- the end of a file, call by call
\* As SpecFair without fairness, on one input file whose first stream is
\* copied and whose second stream is decoded, filtered and encoded: the
\* decoder may hold back a frame, so that the end of the file can take more
\* than one call of process_input.

\* one input file of two streams: the first copied, the second decoded,
\* filtered and encoded, both into one output file
CopyFirstPipeline ==
    [output_files |-> <<OFile(2)>>,
     output_streams |-> (<<0, 0>> :> OStream(<<0, 0>>, FALSE, {})
                         @@ <<0, 1>> :> OStream(NULL, TRUE, {<<0, 1>>})),
     input_files |-> <<IFile(2, INT64_MAX, 0)>>,
     input_streams |-> (<<0, 0>> :> IStream(FALSE, <<<<0, 0>>>>)
                        @@ <<0, 1>> :> IStream(TRUE, <<>>))]

InitEofCalls ==
    /\ pc = "parse"
    /\ max_error_rate = <<2, 3>>
    /\ stdin_interaction = FALSE
    /\ exit_on_error = FALSE
    /\ \E p \in {CopyFirstPipeline, MixedPipeline(0), LimitedPipeline(INT64_MAX)} :
       \E eof \in BOOLEAN :
          InitState(p, [Env(FALSE, {}) EXCEPT !.eof = eof])

SpecEofCalls == InitEofCalls /\ [][NextFair]_vars

\* the output streams in the outputs of the streams of the input file k
FedBy(k) ==
    UNION {Range(input_streams[i].outputs) : i \in FileStreams(k)}

\* C30: at the end of the input of a file each output stream fed by the
\* file is closed and given its final muxer signal exactly once over the
\* whole run, however many calls of process_input the decoders of the file
\* need before all of them report the end of the stream: no stream goes
\* through lines 1101-1102 twice, and once eof_reached is set every stream
\* fed by the file went through them once.
C30_ClosedOnce ==
    /\ \A o \in DOMAIN output_streams : output_streams[o].nb_eof <= 1
    /\ \A k \in 0..(nb_input_files - 1) :
          input_files[k + 1].eof_reached # 0 =>
             \A o \in FedBy(k) : output_streams[o].nb_eof = 1

\* ------------------------------------------------- the flush of a looped input

\* C31: process_input_packet called with a null packet and no_eof set, as
\* decode_flush calls it, closes no output stream and forwards nothing,
\* neither a packet nor the end of the stream, to a stream-copy output: the
\* output streams are left as they were, by one call and by the whole of
\* decode_flush; for a stream that needs no decoding the call reports the
\* end of the stream at once and changes nothing, so the loop of
\* decode_flush ends after one call for it. Checked on every input stream
\* and input file in every state in which transcode_step is about to run.
C31_LoopedFlush ==
    pc = "step" =>
       /\ \A i \in DOMAIN input_streams :
          \A r \in {process_input_packet(World, i, NULLPKT, 1, "frame")} :
             /\ r.W.os = output_streams
             /\ r.W.ifs = input_files
             /\ ~input_streams[i].decoding_needed =>
                   /\ r.ret = 0
                   /\ r.W = World
                   /\ decode_flush_while(r, i) = World
                   /\ decode_flush_stream(World, i) = World
       /\ \A k \in 0..(nb_input_files - 1) :
             decode_flush(World, k, 0).os = output_streams

\* the input was looped after a packet of its copied stream had been muxed:
\* the copied output is as the packet left it, open and without the final
\* signal
C31_Witness ==
    /\ pc = "report"
    /\ gp_ret = <<1>>
    /\ pi_ret = <<AVERROR(EAGAIN)>>
    /\ ~input_streams[<<0, 1>>].decoding_needed
    /\ input_streams[<<0, 1>>].outputs = << <<0, 1>> >>
    /\ output_streams[<<0, 1>>].nb_copied = 1
    /\ output_streams[<<0, 1>>].last_mux_dts = 0
    /\ output_streams[<<0, 1>>].finished = 0
    /\ output_streams[<<0, 1>>].mux_eof = <<>>
    /\ output_streams[<<0, 1>>].nb_eof = 0
====
